---- MODULE Spec2Model ----
(***************************************************************************)
(* Model of the self-contained recommendation service of api/index.py:     *)
(* SimpleMALService (catalog client), SimpleRecommendationEngine (cache,   *)
(* profile, candidate gathering, scoring, selection, reasons, content       *)
(* filter) and the three endpoints /api/recommendations, /api/search and    *)
(* /api/trending.                                                           *)
(*                                                                          *)
(* Representation.  Ratings of anime (0..10, one decimal) are integers in   *)
(* tenths (8.5 is 85).  Relevance scores are exact rationals kept as a      *)
(* numerator over 1000 * Den(profile); the rounded similarity_score is in   *)
(* thousandths (1.0 is 1000).  A key that is absent from a catalog item is  *)
(* represented by the default the code's .get() supplies ([] for genres,    *)
(* 0 for score, "" for rating and title); the nullable fields title,       *)
(* score, genres and rating hold None or Some(v).  Text that the code       *)
(* searches for substrings is spelled out character by character by Spell.  *)
(* A genre or studio dict {"name": n} is its name n.                        *)
(***************************************************************************)
EXTENDS Integers, Sequences, FiniteSets, TLC

VARIABLES
    anime_cache,        \* SimpleRecommendationEngine.anime_cache: id -> item
    hash_order,         \* iteration order of a set of genre names in this process
    pc,                 \* position of the request being served
    user_anime_list,    \* seed ids of the request (processed_anime_list)
    max_recommendations,
    seed_idx,           \* next seed of the profile loop
    user_anime_data,    \* resolved seed items
    user_profile,       \* genres, studios, avg_score
    search_queries,     \* planned queries
    search_log,         \* per executed query: the query and the catalog outcome
    lookup_log,         \* per seed: id and how get_anime_details answered
    all_candidates,     \* accepted candidates, in discovery order
    seen_anime_ids,
    search_errors,      \* exception kinds caught by the per-query handler
    raised,             \* get_recommendations raised
    result,             \* list returned by get_recommendations
    fallback_anime,     \* what get_top_anime handed to the fallback
    recommendations_list, \* the endpoint's list: result, or the fallback
    response,           \* last HTTP response: kind, status, items
    saved,              \* a remembered earlier run (history, for run comparison)
    probe,              \* item handed to is_nsfw_content in the classification runs
    verdict,            \* what is_nsfw_content answered for probe
    clock,              \* time.time(), in tenths of a second
    last_request_time,  \* SimpleMALService.last_request_time
    thread,             \* per request thread: where its catalog call stands
    sent,               \* outbound catalog requests: service and time of issue
    reply,              \* what the catalog client handed back to its last caller
    api_request,        \* JSON body of the last POST to AnimeRecommendationAPI
    api_response,       \* how AnimeRecommendationAPI answered it
    sim_call,           \* arguments of the last calculate_similarity_score call
    sim_score,          \* its additions to score and the value it returned
    div_call,           \* arguments of the last ensure_diversity call
    div_result,         \* the list it returned
    syn_call,           \* a catalog synopsis and the output that formats it
    syn_result,         \* the synopsis of the output item
    anime_database,     \* AnimeRecommendationEngine.anime_database
    last_recommendations \* list its get_recommendations returned last

vars == <<anime_cache, hash_order, pc, user_anime_list, max_recommendations,
          seed_idx, user_anime_data, user_profile, search_queries, search_log,
          lookup_log, all_candidates, seen_anime_ids, search_errors, raised,
          result, fallback_anime, recommendations_list, response, saved, probe,
          verdict, clock, last_request_time, thread, sent, reply, api_request,
          api_response, sim_call, sim_score,
          div_call, div_result, syn_call, syn_result, anime_database,
          last_recommendations>>

\* The state of the catalog clients, and the state of the engine and endpoints.
clientVars == <<clock, last_request_time, thread, sent, reply>>
apiVars == <<api_request, api_response>>
dbVars == <<anime_database, last_recommendations>>
funcVars == <<sim_call, sim_score, div_call, div_result, syn_call,
              syn_result>>
engineVars == <<anime_cache, hash_order, pc, user_anime_list, max_recommendations,
                seed_idx, user_anime_data, user_profile, search_queries,
                search_log, lookup_log, all_candidates, seen_anime_ids,
                search_errors, raised, result, fallback_anime,
                recommendations_list, response, saved, probe, verdict>>

(***************************************************************************)
(* Bounds of the model.                                                     *)
(***************************************************************************)
MaxSeeds == 2
MaxRec == 4

\* Python's None, and a present value v, of a nullable catalog field.
None == <<>>
Some(v) == <<v>>
Val(x) == x[1]

\* Outcome of an upstream call: a 2xx answer carrying a list of item ids, or a
\* failure (network error, timeout, non-2xx).
Ok(ids) == [ok |-> TRUE, data |-> ids]
Fail == [ok |-> FALSE, data |-> <<>>]

(***************************************************************************)
(* Text.                                                                    *)
(***************************************************************************)
Spell(s) ==
    CASE s = ""           -> <<>>
      [] s = "PG"         -> <<"P", "G">>
      [] s = "Rx"         -> <<"R", "x">>
      [] s = "R+"         -> <<"R", "+">>
      [] s = "Action"     -> <<"A", "c", "t", "i", "o", "n">>
      [] s = "Drama"      -> <<"D", "r", "a", "m", "a">>
      [] s = "Comedy"     -> <<"C", "o", "m", "e", "d", "y">>
      [] s = "Ecchi"      -> <<"E", "c", "c", "h", "i">>
      [] s = "Saga"       -> <<"S", "a", "g", "a">>
      [] s = "Adult Saga" -> <<"A", "d", "u", "l", "t", " ", "S", "a", "g", "a">>

\* str.lower() on one character
LowerChar(c) ==
    CASE c = "A" -> "a" [] c = "C" -> "c" [] c = "D" -> "d" [] c = "E" -> "e"
      [] c = "G" -> "g" [] c = "P" -> "p" [] c = "R" -> "r" [] c = "S" -> "s"
      [] OTHER -> c

\* str.lower()
Lower(cs) == [i \in 1..Len(cs) |-> LowerChar(cs[i])]

\* sub in s
Contains(sub, s) ==
    \E i \in 0..(Len(s) - Len(sub)) : SubSeq(s, i + 1, i + Len(sub)) = sub

\* " ".join(parts)
RECURSIVE JoinSpace(_)
JoinSpace(parts) ==
    IF parts = <<>> THEN <<>>
    ELSE IF Len(parts) = 1 THEN parts[1]
    ELSE parts[1] \o <<" ">> \o JoinSpace(Tail(parts))

nsfw_ratings ==
    { <<"r", "+">>, <<"r", "x">>, <<"h", "e", "n", "t", "a", "i">>,
      <<"1", "8", "+">>, <<"m", "a", "t", "u", "r", "e">> }
nsfw_genres ==
    { <<"h", "e", "n", "t", "a", "i">>, <<"e", "c", "c", "h", "i">>,
      <<"y", "a", "o", "i">>, <<"y", "u", "r", "i">> }
nsfw_title_indicators ==
    { <<"h", "e", "n", "t", "a", "i">>, <<"e", "c", "c", "h", "i">>,
      <<"1", "8", "+">>, <<"a", "d", "u", "l", "t">> }

\* The three checks of is_nsfw_content, each on its own field.
RatingMatches(anime) ==
    /\ anime.rating # None
    /\ LET rating == Lower(Spell(Val(anime.rating)))
       IN  \E r \in nsfw_ratings : Contains(r, rating)
GenreMatches(anime) ==
    /\ anime.genres # None
    /\ LET genres == JoinSpace([i \in 1..Len(Val(anime.genres)) |->
                                   Lower(Spell(Val(anime.genres)[i]))])
       IN  \E g \in nsfw_genres : Contains(g, genres)
TitleMatches(anime) ==
    /\ anime.title # None
    /\ LET title == Lower(Spell(Val(anime.title)))
       IN  \E t \in nsfw_title_indicators : Contains(t, title)

\* is_nsfw_content: the checks run in order inside one try block; None.lower()
\* and iterating None raise, and the handler answers False.
is_nsfw_content(anime) ==
    IF anime.rating = None THEN FALSE
    ELSE IF RatingMatches(anime) THEN TRUE
    ELSE IF anime.genres = None THEN FALSE
    ELSE IF GenreMatches(anime) THEN TRUE
    ELSE IF anime.title = None THEN FALSE
    ELSE TitleMatches(anime)

(***************************************************************************)
(* The catalog: what the upstream API holds.  The ratings are such that the  *)
(* binary floating-point sums of calculate_relevance_score order any two     *)
(* items as the exact sums do: for every profile of the model, items with    *)
(* equal exact scores have equal floats.                                     *)
(***************************************************************************)
Item(id, title, score, genres, studios, rating) ==
    [mal_id |-> id, title |-> title, score |-> score, genres |-> genres,
     studios |-> studios, rating |-> rating]

\* A well-formed item: every nullable field present.
Anime(id, title, score, genres, studios, rating) ==
    Item(id, Some(title), Some(score), Some(genres), studios, Some(rating))

CatalogIds == {1, 2, 3, 4, 5, 6, 7, 8, 10, 11, 12, 13, 14}
CatalogItem(i) ==
    CASE i = 1  -> Anime(1, "Saga", 85, <<"Action", "Drama">>, <<"Mappa">>, "PG")
      [] i = 2  -> Anime(2, "Saga", 85, <<"Drama">>, <<"Mappa">>, "PG")
      [] i = 3  -> Item(3, Some("Saga"), None, Some(<<"Drama">>), <<"Bones">>, Some("PG"))
      [] i = 4  -> Anime(4, "Saga", 85, <<"Action", "Drama">>, <<"Mappa">>, "PG")
      [] i = 5  -> Anime(5, "Saga", 72, <<"Action">>, <<"Bones">>, "PG")
      [] i = 6  -> Anime(6, "Saga", 78, <<"Action">>, <<"Bones">>, "Rx")
      [] i = 7  -> Item(7, Some("Saga"), Some(80), None, <<"Bones">>, Some("PG"))
      [] i = 8  -> Anime(8, "Saga", 90, <<"Drama">>, <<"Bones">>, "PG")
      [] i = 10 -> Anime(10, "Saga", 74, <<"Action">>, <<>>, "PG")
      [] i = 11 -> Item(11, Some("Saga"), Some(70), Some(<<"Ecchi">>), <<>>, None)
      [] i = 12 -> Item(12, Some("Adult Saga"), None, Some(<<"Comedy">>), <<>>, Some(""))
      [] i = 13 -> Anime(13, "Saga", 65, <<"Comedy">>, <<"Mappa">>, "")
      [] i = 14 -> Anime(14, "Saga", 88, <<"Action">>, <<>>, "PG")

Catalog == [i \in CatalogIds |-> CatalogItem(i)]

\* is_nsfw_content depends on the item alone: its answer for each item of the
\* catalog, computed once.
nsfw_verdict == [i \in CatalogIds |-> is_nsfw_content(Catalog[i])]

SeedIds == {1, 2, 3}

\* Seed lists a request can carry: 1..MaxSeeds ids, repetitions allowed.
SeedLists == { list : list \in UNION { [1..n -> SeedIds] : n \in 1..MaxSeeds } }

\* Lists the upstream search can answer with (ids of catalog items).
SearchResponses ==
    { Ok(<<4, 5, 1, 6, 14, 10>>), Ok(<<12, 8, 13, 11, 2, 7, 5>>) }

\* Lists the upstream top-anime listing can answer with.
TopResponses == { Ok(<<1, 6, 8, 11>>), Ok(<<2, 7, 5>>), Ok(<<>>) }

\* Outcomes of one upstream call, and the counts a request can ask for.
SearchOutcomes == SearchResponses \cup {Fail}
TopOutcomes == TopResponses \cup {Fail}
MaxValues == 0..MaxRec

(***************************************************************************)
(* Ordered dicts (insertion order kept) as sequences of <<key, count>>.     *)
(***************************************************************************)
Keys(d) == { d[i][1] : i \in 1..Len(d) }
DictGet(d, k, default) ==
    IF k \in Keys(d) THEN d[CHOOSE i \in 1..Len(d) : d[i][1] = k][2] ELSE default
\* d[k] = d.get(k, 0) + 1
DictIncr(d, k) ==
    IF k \in Keys(d)
    THEN [i \in 1..Len(d) |-> IF d[i][1] = k THEN <<k, d[i][2] + 1>> ELSE d[i]]
    ELSE Append(d, <<k, 1>>)
RECURSIVE DictIncrAll(_, _)
DictIncrAll(d, ks) ==
    IF ks = <<>> THEN d ELSE DictIncrAll(DictIncr(d, Head(ks)), Tail(ks))
RECURSIVE SumValues(_)
SumValues(d) == IF d = <<>> THEN 0 ELSE Head(d)[2] + SumValues(Tail(d))

ToSet(seq) == { seq[i] : i \in 1..Len(seq) }
RECURSIVE SelectSeq2(_, _)
\* [x for x in seq if x in keep], order kept
SelectSeq2(seq, keep) ==
    IF seq = <<>> THEN <<>>
    ELSE IF Head(seq) \in keep THEN <<Head(seq)>> \o SelectSeq2(Tail(seq), keep)
    ELSE SelectSeq2(Tail(seq), keep)

RECURSIVE InsertDescUnstable(_, _, _)
\* A faulty variant of InsertDesc: an element goes before its equals.
InsertDescUnstable(idxs, i, keys) ==
    IF idxs = <<>> THEN <<i>>
    ELSE IF keys[Head(idxs)] > keys[i]
         THEN <<Head(idxs)>> \o InsertDescUnstable(Tail(idxs), i, keys)
         ELSE <<i>> \o idxs

\* list.sort(key=..., reverse=True) and sorted(..., reverse=True): stable,
\* descending.  keys[i] is the integer key of seq[i].
RECURSIVE InsertDesc(_, _, _)
InsertDesc(idxs, i, keys) ==
    IF idxs = <<>> THEN <<i>>
    ELSE IF keys[Head(idxs)] >= keys[i]
         THEN <<Head(idxs)>> \o InsertDesc(Tail(idxs), i, keys)
         ELSE <<i>> \o idxs
RECURSIVE SortedIdx(_, _)
SortedIdx(n, keys) ==
    IF n = 0 THEN <<>> ELSE InsertDesc(SortedIdx(n - 1, keys), n, keys)
SortDesc(seq, keys) ==
    [j \in 1..Len(seq) |-> seq[SortedIdx(Len(seq), keys)[j]]]

(***************************************************************************)
(* Profile (get_recommendations, step 1).                                   *)
(***************************************************************************)
EmptyProfile == [genres |-> <<>>, studios |-> <<>>, avg_score |-> <<0, 1>>]

\* The body of the seed loop for one resolved item: count its genres and
\* studios.  Iterating a None genre list raises TypeError.
ProfileAddRaises(anime) == anime.genres = None
ProfileAdd(profile, anime) ==
    [profile EXCEPT !.genres = DictIncrAll(@, Val(anime.genres)),
                    !.studios = DictIncrAll(@, anime.studios)]

\* a.get('score', 0) > 0 for each resolved seed: None > 0 raises TypeError.
ScoresRaise(data) == \E i \in 1..Len(data) : data[i].score = None
RECURSIVE PositiveScores(_)
PositiveScores(data) ==
    IF data = <<>> THEN <<>>
    ELSE IF Val(Head(data).score) > 0
         THEN <<Val(Head(data).score)>> \o PositiveScores(Tail(data))
         ELSE PositiveScores(Tail(data))
RECURSIVE SumSeq(_)
SumSeq(xs) == IF xs = <<>> THEN 0 ELSE Head(xs) + SumSeq(Tail(xs))

\* A faulty variant of AvgScore: without scores the average stays at the 0 the
\* profile was created with.
AvgScoreNoDefault(data) ==
    IF PositiveScores(data) = <<>> THEN <<0, 1>>
    ELSE <<SumSeq(PositiveScores(data)), Len(PositiveScores(data))>>

\* sum(scores) / len(scores) if scores else 7.0, as <<numerator, denominator>>
\* in tenths.
AvgScore(data) ==
    IF PositiveScores(data) = <<>> THEN <<70, 1>>
    ELSE <<SumSeq(PositiveScores(data)), Len(PositiveScores(data))>>

top_genres(profile) ==
    SortDesc(profile.genres,
             [i \in 1..Len(profile.genres) |-> profile.genres[i][2]])
RECURSIVE AtLeastTwo(_)
AtLeastTwo(d) ==
    IF d = <<>> THEN <<>>
    ELSE IF Head(d)[2] >= 2 THEN <<Head(d)[1]>> \o AtLeastTwo(Tail(d))
    ELSE AtLeastTwo(Tail(d))
preferred_studios(profile) == AtLeastTwo(profile.studios)

(***************************************************************************)
(* Queries (step 2).  A query string is the sequence of its words.          *)
(***************************************************************************)
GenreQueries(profile) ==
    IF Len(top_genres(profile)) >= 2
    THEN << <<"best", top_genres(profile)[1][1], "anime">>,
            <<top_genres(profile)[1][1], top_genres(profile)[2][1]>> >>
    ELSE IF Len(top_genres(profile)) >= 1
    THEN << <<"best", top_genres(profile)[1][1], "anime">> >>
    ELSE <<>>
StudioQueries(profile) ==
    IF preferred_studios(profile) # <<>>
    THEN << <<preferred_studios(profile)[1], "anime">> >>
    ELSE <<>>
ScoreTierQuery(profile) ==
    IF profile.avg_score[1] >= 80 * profile.avg_score[2]
    THEN <<"highly", "rated", "anime">>
    ELSE <<"popular", "anime">>
PlannedQueries(profile) ==
    SubSeq(GenreQueries(profile) \o StudioQueries(profile)
             \o <<ScoreTierQuery(profile)>>,
           1,
           IF Len(GenreQueries(profile)) + Len(StudioQueries(profile)) + 1 < 4
           THEN Len(GenreQueries(profile)) + Len(StudioQueries(profile)) + 1
           ELSE 4)

(***************************************************************************)
(* Scoring.                                                                 *)
(***************************************************************************)
\* Relevance values of one request share the denominator 1000 * Den(profile).
Den(profile) ==
    IF SumValues(profile.genres) = 0 THEN 1 ELSE SumValues(profile.genres)

genre_overlap(anime, profile) ==
    ToSet(Val(anime.genres)) \cap Keys(profile.genres)

RECURSIVE SumCounts(_, _)
\* sum(user_profile['genres'][g] for g in genre_overlap)
SumCounts(d, ks) ==
    IF d = <<>> THEN 0
    ELSE (IF Head(d)[1] \in ks THEN Head(d)[2] ELSE 0) + SumCounts(Tail(d), ks)

Abs(x) == IF x < 0 THEN 0 - x ELSE x

\* abs(anime_score - avg_score) <= tenths / 10
DiffWithin(score, avg, tenths) ==
    Abs(score * avg[2] - avg[1]) <= tenths * avg[2]

\* Score compatibility, thousandths.
CompatibilityPart(score, avg) ==
    IF score > 0
    THEN IF DiffWithin(score, avg, 5) THEN 250
         ELSE IF DiffWithin(score, avg, 10) THEN 200
         ELSE IF DiffWithin(score, avg, 15) THEN 150
         ELSE 50
    ELSE 0

\* Quality bonus, thousandths.
QualityPart(score) ==
    IF score >= 80 THEN 150
    ELSE IF score >= 75 THEN 100
    ELSE IF score >= 70 THEN 50
    ELSE 0

\* calculate_relevance_score.  raises is "" or the exception it throws; value
\* is the score as a numerator over 1000 * Den(profile).
calculate_relevance_score(anime, profile) ==
    IF anime.genres = None \/ anime.score = None
    THEN [raises |-> "TypeError", value |-> 0]
    ELSE LET overlap == genre_overlap(anime, profile)
             total_user_genres == SumValues(profile.genres)
         IN  IF overlap # {} /\ total_user_genres = 0
             THEN [raises |-> "ZeroDivisionError", value |-> 0]
             ELSE [raises |-> "",
                   value |->
                     (IF overlap # {}
                      THEN 600 * SumCounts(profile.genres, overlap)
                      ELSE 0)
                     + (CompatibilityPart(Val(anime.score), profile.avg_score)
                        + QualityPart(Val(anime.score))) * Den(profile)]

(***************************************************************************)
(* Candidate gathering (step 3): the body of the per-query try block.       *)
(***************************************************************************)
\* A faulty variant of Qualifies: the seen set is not consulted.
QualifiesAnySeen(anime, seen) ==
    /\ anime.mal_id # 0
    /\ anime.score # None
    /\ Val(anime.score) > 0
    /\ ~nsfw_verdict[anime.mal_id]

\* The filter of the inner loop: has an id, not seen, rated, not NSFW.
Qualifies(anime, seen) ==
    /\ anime.mal_id # 0
    /\ anime.mal_id \notin seen
    /\ anime.score # None
    /\ Val(anime.score) > 0
    /\ ~nsfw_verdict[anime.mal_id]

RECURSIVE ProcessResults(_, _, _, _)
\* acc = [cands, seen, error]; an exception leaves the loop of this query.
ProcessResults(results, query, profile, acc) ==
    IF results = <<>> THEN acc
    ELSE IF ~Qualifies(Head(results), acc.seen)
    THEN ProcessResults(Tail(results), query, profile, acc)
    ELSE LET relevance == calculate_relevance_score(Head(results), profile)
         IN  IF relevance.raises # ""
             THEN [acc EXCEPT !.error = relevance.raises]
             ELSE ProcessResults(Tail(results), query, profile,
                      [acc EXCEPT
                         !.cands = Append(@,
                             [anime |-> Head(results),
                              relevance_score |-> relevance.value,
                              search_query |-> query]),
                         !.seen = @ \cup {Head(results).mal_id}])

\* What the catalog client hands back for an upstream outcome: _make_request
\* turns every failure into {"data": []}.
ItemsOf(outcome) ==
    IF ~outcome.ok THEN <<>>
    ELSE [i \in 1..Len(outcome.data) |-> Catalog[outcome.data[i]]]

(***************************************************************************)
(* Selection (steps 4 and 5) and reasons.                                   *)
(***************************************************************************)
\* list(anime_genres.intersection(user_genres)): the order a set iterates in.
SetToList(S, order) == SelectSeq2(order, S)

FirstIn(seq, S) == seq[CHOOSE i \in 1..Len(seq) :
                         seq[i] \in S /\ \A j \in 1..(i - 1) : seq[j] \notin S]

\* primary genre: first genre that is in the profile, else the first genre,
\* else None.
PrimaryGenre(anime, profile) ==
    IF ToSet(Val(anime.genres)) \cap Keys(profile.genres) # {}
    THEN Some(FirstIn(Val(anime.genres), Keys(profile.genres)))
    ELSE IF Val(anime.genres) # <<>> THEN Some(Val(anime.genres)[1])
    ELSE None

StudioBoost(anime, profile) ==
    IF ToSet(anime.studios) \cap ToSet(preferred_studios(profile)) # {}
    THEN 100 ELSE 0

\* round(x, 3) of numerator / (1000 * den), in thousandths (no tie occurs
\* for the profiles and items of the model).
Round3(numerator, den) == (2 * numerator + den) \div (2 * den)

generate_unique_reason(anime, profile, order) ==
    LET matches == SetToList(genre_overlap(anime, profile), order)
        genreClause ==
            IF Len(matches) >= 2
            THEN << <<"Matches your", matches[1], matches[2], "preferences">> >>
            ELSE IF Len(matches) = 1
            THEN << <<"Perfect", matches[1], "match">> >>
            ELSE <<>>
        studioClause ==
            IF ToSet(anime.studios) \cap ToSet(preferred_studios(profile)) # {}
            THEN << <<"from your preferred",
                      FirstIn(anime.studios, ToSet(preferred_studios(profile)))>> >>
            ELSE <<>>
        scoreClause ==
            IF DiffWithin(Val(anime.score), profile.avg_score, 5)
            THEN << <<"matches your taste", Val(anime.score)>> >>
            ELSE IF Val(anime.score) >= 80 THEN << <<"highly rated">> >>
            ELSE <<>>
        reasons == genreClause \o studioClause \o scoreClause
    IN  IF reasons # <<>> THEN reasons
        ELSE << <<"recommended for your unique taste">> >>

\* The recommendation dict built for an admitted candidate.
Recommendation(cand, profile, order) ==
    [mal_id |-> cand.anime.mal_id,
     similarity_score |->
         Round3(cand.relevance_score
                  + StudioBoost(cand.anime, profile) * Den(profile),
                Den(profile)),
     reason |-> generate_unique_reason(cand.anime, profile, order),
     primary_genre |-> PrimaryGenre(cand.anime, profile),
     found_via |-> cand.search_query]

RECURSIVE SelectLoopUnbounded(_, _, _, _, _, _)
\* A faulty variant of SelectLoop: the loop does not stop at maxrec items.
SelectLoopUnbounded(cands, final, genre_counts, maxrec, profile, order) ==
    IF cands = <<>> THEN final
    ELSE IF DictGet(genre_counts, PrimaryGenre(Head(cands).anime, profile), 0) < 3
    THEN SelectLoopUnbounded(Tail(cands),
             Append(final, Recommendation(Head(cands), profile, order)),
             DictIncr(genre_counts, PrimaryGenre(Head(cands).anime, profile)),
             maxrec, profile, order)
    ELSE SelectLoopUnbounded(Tail(cands), final, genre_counts, maxrec, profile,
                             order)

RECURSIVE SelectLoopUncapped(_, _, _, _, _, _)
\* A faulty variant of SelectLoop: the count per primary genre is not consulted.
SelectLoopUncapped(cands, final, genre_counts, maxrec, profile, order) ==
    IF cands = <<>> \/ Len(final) >= maxrec THEN final
    ELSE SelectLoopUncapped(Tail(cands),
             Append(final, Recommendation(Head(cands), profile, order)),
             DictIncr(genre_counts, PrimaryGenre(Head(cands).anime, profile)),
             maxrec, profile, order)

RECURSIVE SelectLoop(_, _, _, _, _, _)
\* The loop of step 5 over the sorted candidates: at most 3 per primary genre.
SelectLoop(cands, final, genre_counts, maxrec, profile, order) ==
    IF cands = <<>> \/ Len(final) >= maxrec THEN final
    ELSE IF DictGet(genre_counts, PrimaryGenre(Head(cands).anime, profile), 0) < 3
    THEN SelectLoop(Tail(cands),
                    Append(final, Recommendation(Head(cands), profile, order)),
                    DictIncr(genre_counts, PrimaryGenre(Head(cands).anime, profile)),
                    maxrec, profile, order)
    ELSE SelectLoop(Tail(cands), final, genre_counts, maxrec, profile, order)

SortedCandidates(cands) ==
    SortDesc(cands, [i \in 1..Len(cands) |-> cands[i].relevance_score])

FinalRecommendations(cands, maxrec, profile, order) ==
    SelectLoop(SortedCandidates(cands), <<>>, <<>>, maxrec, profile, order)

(***************************************************************************)
(* Endpoint helpers.                                                        *)
(***************************************************************************)
\* The dict a listing (search, trending, fallback) formats for an item; the
\* comprehension over anime.get("genres", []) raises on a None genre list.
FormatRaises(anime) == anime.genres = None

FallbackItem(anime) ==
    [mal_id |-> anime.mal_id, similarity_score |-> 500,
     reason |-> << <<"Popular anime recommendation">> >>,
     primary_genre |-> None, found_via |-> <<>>]

Prefix(seq, n) == SubSeq(seq, 1, IF n < Len(seq) THEN n ELSE Len(seq))

RECURSIVE FallbackLoop(_, _, _)
\* acc = [items, error]
FallbackLoop(animes, seeds, acc) ==
    IF animes = <<>> THEN acc
    ELSE IF Head(animes).mal_id \in seeds \/ nsfw_verdict[Head(animes).mal_id]
    THEN FallbackLoop(Tail(animes), seeds, acc)
    ELSE IF FormatRaises(Head(animes)) THEN [acc EXCEPT !.error = TRUE]
    ELSE FallbackLoop(Tail(animes), seeds,
                      [acc EXCEPT !.items = Append(@, FallbackItem(Head(animes)))])

\* The fallback of /api/recommendations: an exception anywhere in it leaves
\* recommendations_list as it was (empty).
FallbackRecommendations(top, seeds, maxrec) ==
    LET looped == FallbackLoop(Prefix(ItemsOf(top), maxrec), ToSet(seeds),
                               [items |-> <<>>, error |-> FALSE])
    IN  IF looped.error THEN <<>> ELSE Prefix(looped.items, maxrec)

RECURSIVE ListingLoopUnfiltered(_, _)
\* A faulty variant of ListingLoop: the content filter is left out.
ListingLoopUnfiltered(animes, acc) ==
    IF animes = <<>> THEN acc
    ELSE IF FormatRaises(Head(animes)) THEN [acc EXCEPT !.error = TRUE]
    ELSE ListingLoopUnfiltered(Tail(animes),
             [acc EXCEPT !.items = Append(@, [mal_id |-> Head(animes).mal_id])])

RECURSIVE ListingLoop(_, _)
\* The loop of /api/search and /api/trending: skip NSFW, format the rest.
ListingLoop(animes, acc) ==
    IF animes = <<>> THEN acc
    ELSE IF nsfw_verdict[Head(animes).mal_id] THEN ListingLoop(Tail(animes), acc)
    ELSE IF FormatRaises(Head(animes)) THEN [acc EXCEPT !.error = TRUE]
    ELSE ListingLoop(Tail(animes),
                     [acc EXCEPT !.items = Append(@, [mal_id |-> Head(animes).mal_id])])

Listing(kind, outcome) ==
    LET looped == ListingLoop(ItemsOf(outcome), [items |-> <<>>, error |-> FALSE])
    IN  IF looped.error
        THEN [kind |-> kind, status |-> "error", code |-> 500, items |-> <<>>,
              fallback_used |-> FALSE, message |-> TRUE]
        ELSE [kind |-> kind, status |-> "success", code |-> 200,
              items |-> looped.items, fallback_used |-> FALSE,
              message |-> FALSE]

NoResponse ==
    [kind |-> "none", status |-> "none", code |-> 0, items |-> <<>>,
     fallback_used |-> FALSE, message |-> FALSE]

\* A response of the endpoint kind that is the JSON object
\* {"status": "error", "message": ...} with the HTTP status code.
ErrorEnvelope(kind, code) ==
    [kind |-> kind, status |-> "error", code |-> code, items |-> <<>>,
     fallback_used |-> FALSE, message |-> TRUE]

\* What the client gets when an exception leaves a view function: the
\* framework's own 500 page, a body that is no JSON object.
Unhandled(kind) ==
    [kind |-> kind, status |-> "none", code |-> 500, items |-> <<>>,
     fallback_used |-> FALSE, message |-> FALSE]
NoRun == [seeds |-> <<>>]

(***************************************************************************)
(* The catalog clients: SimpleMALService of api/index.py and MALService of  *)
(* the services package.  Time is counted in tenths of a second.  A thread   *)
(* that calls a client is at "idle", "sleep" (inside time.sleep), "send"     *)
(* (about to call requests.get) or "wait" (inside requests.get).             *)
(***************************************************************************)
request_delay == 10
timeout == 100
rate_limit_delay == 3

MaxClock == 13
MaxCalls == 3

OneThread == {1}
TwoThreads == {1, 2}

\* How the transport ends a request.  The session of MALService sets no
\* timeout, so its requests end with an answer or a network error.
Transports == {"2xx", "non-2xx", "network error", "timeout"}
SessionTransports == {"2xx", "non-2xx", "network error"}
ClientOps == {"get_anime_by_id", "search_anime", "get_top_anime"}

\* The "data" of the JSON a 2xx answer carries: ids of catalog items.
Payload(op) ==
    CASE op = "get_anime_by_id" -> <<1>>
      [] op = "search_anime"    -> <<4, 5>>
      [] op = "get_top_anime"   -> <<1, 6>>

IdleThread == [pc |-> "idle", service |-> "", op |-> "", wake |-> 0, issued |-> 0]

Max(a, b) == IF a > b THEN a ELSE b

NoReply ==
    [service |-> "", op |-> "", outcome |-> "",
     returned |-> [raises |-> FALSE, kind |-> "", data |-> <<>>]]

\* Calls begun so far: those whose request went out and those about to send.
CallsBegun ==
    Len(sent) + Cardinality({ t \in TwoThreads :
                                 thread[t].pc = "sleep" \/ thread[t].pc = "send" })

\* A faulty variant of make_request: the exception of a failed request is not
\* caught.
make_request_uncaught(outcome, payload) ==
    [raises |-> outcome # "2xx", data |-> IF outcome = "2xx" THEN payload ELSE <<>>]

\* SimpleMALService._make_request after requests.get: response.json() of a 2xx
\* answer; every exception (of requests.get, of raise_for_status) is caught and
\* {"data": []} is returned.
make_request(outcome, payload) ==
    [raises |-> FALSE, data |-> IF outcome = "2xx" THEN payload ELSE <<>>]

\* What the three operations of SimpleMALService return: get_anime_by_id the
\* dict itself, the other two result.get("data", []).
SimpleReturn(op, outcome) ==
    LET made == make_request(outcome, Payload(op))
    IN  [raises |-> made.raises,
         kind |-> IF made.raises THEN "exception"
                  ELSE IF op = "get_anime_by_id" THEN "dict" ELSE "list",
         data |-> made.data]

\* get_anime_details on the dict of get_anime_by_id: the item, or None when
\* result.get("data") is empty.
DetailsOf(got) == IF got.data # <<>> THEN Some(got.data[1]) ELSE None

\* What the operations of MALService return; RequestException (connection
\* errors, HTTPError of raise_for_status) is caught.  get_anime_by_id and
\* search_anime return one formatted item or None, get_top_anime a list.
SessionReturn(op, outcome) ==
    IF outcome # "2xx"
    THEN [raises |-> FALSE,
          kind |-> IF op = "get_top_anime" THEN "list" ELSE "None",
          data |-> <<>>]
    ELSE [raises |-> FALSE,
          kind |-> IF op = "get_top_anime" THEN "list" ELSE "item",
          data |-> IF op = "get_top_anime" THEN Payload(op)
                   ELSE <<Payload(op)[1]>>]

InitClient ==
    /\ clock = request_delay
    /\ last_request_time = 0
    /\ thread = [t \in TwoThreads |-> IdleThread]
    /\ sent = <<>>
    /\ reply = NoReply

\* _make_request up to the sleep: the time since the last request is compared
\* with request_delay.
SimpleCall(threads) ==
    /\ UNCHANGED <<engineVars, apiVars, funcVars, dbVars>>
    /\ CallsBegun < MaxCalls
    /\ \E t \in threads, op \in ClientOps :
         /\ thread[t].pc = "idle"
         /\ LET time_since_last == clock - last_request_time
            IN  thread' =
                  [thread EXCEPT ![t] =
                     IF time_since_last < request_delay
                     THEN [pc |-> "sleep", service |-> "SimpleMALService",
                           op |-> op,
                           wake |-> clock + (request_delay - time_since_last),
                           issued |-> 0]
                     ELSE [pc |-> "send", service |-> "SimpleMALService",
                           op |-> op, wake |-> 0, issued |-> 0]]
    /\ UNCHANGED <<clock, last_request_time, sent, reply>>

\* An operation of MALService up to the sleep: time.sleep(rate_limit_delay).
SessionCall(threads) ==
    /\ UNCHANGED <<engineVars, apiVars, funcVars, dbVars>>
    /\ CallsBegun < MaxCalls
    /\ \E t \in threads, op \in ClientOps :
         /\ thread[t].pc = "idle"
         /\ thread' = [thread EXCEPT ![t] =
                          [pc |-> "sleep", service |-> "MALService", op |-> op,
                           wake |-> clock + rate_limit_delay, issued |-> 0]]
    /\ UNCHANGED <<clock, last_request_time, sent, reply>>

\* time.sleep returns: the time asked for has passed.
Sleep(threads) ==
    /\ UNCHANGED <<engineVars, apiVars, funcVars, dbVars>>
    /\ \E t \in threads :
         /\ thread[t].pc = "sleep"
         /\ clock' = Max(clock, thread[t].wake)
         /\ thread' = [thread EXCEPT ![t].pc = "send"]
    /\ UNCHANGED <<last_request_time, sent, reply>>

\* requests.get / session.get is entered: the request goes out.
Send(threads) ==
    /\ UNCHANGED <<engineVars, apiVars, funcVars, dbVars>>
    /\ \E t \in threads :
         /\ thread[t].pc = "send"
         /\ sent' = Append(sent, <<thread[t].service, clock>>)
         /\ thread' = [thread EXCEPT ![t].pc = "wait", ![t].issued = clock]
    /\ UNCHANGED <<clock, last_request_time, reply>>

\* requests.get of _make_request ends.  Only when it returns a response (2xx
\* or not) is last_request_time set; a timeout ends it after timeout seconds.
SimpleReceive(threads, outcomes) ==
    /\ UNCHANGED <<engineVars, apiVars, funcVars, dbVars>>
    /\ \E t \in threads, outcome \in outcomes :
         /\ thread[t].pc = "wait"
         /\ thread[t].service = "SimpleMALService"
         /\ clock' = IF outcome = "timeout"
                     THEN Max(clock, thread[t].issued + timeout)
                     ELSE clock
         /\ last_request_time' =
              IF outcome = "2xx" \/ outcome = "non-2xx"
              THEN clock' ELSE last_request_time
         /\ reply' = [service |-> "SimpleMALService", op |-> thread[t].op,
                       outcome |-> outcome,
                       returned |-> SimpleReturn(thread[t].op, outcome)]
         /\ thread' = [thread EXCEPT ![t] = IdleThread]
    /\ UNCHANGED sent

\* session.get of MALService ends.
SessionReceive(threads, outcomes) ==
    /\ UNCHANGED <<engineVars, apiVars, funcVars, dbVars>>
    /\ \E t \in threads, outcome \in outcomes :
         /\ thread[t].pc = "wait"
         /\ thread[t].service = "MALService"
         /\ reply' = [service |-> "MALService", op |-> thread[t].op,
                       outcome |-> outcome,
                       returned |-> SessionReturn(thread[t].op, outcome)]
         /\ thread' = [thread EXCEPT ![t] = IdleThread]
    /\ UNCHANGED <<clock, last_request_time, sent>>

\* A tenth of a second passes.
Tick ==
    /\ UNCHANGED <<engineVars, apiVars, funcVars, dbVars>>
    /\ clock < MaxClock
    /\ clock' = clock + 1
    /\ UNCHANGED <<last_request_time, thread, sent, reply>>

(***************************************************************************)
(* AnimeRecommendationAPI (package api.app) and RequestValidator.  A JSON    *)
(* value is a record: type is "null", "bool", "int", "float", "inf",         *)
(* "string" or "list"; num holds a number in tenths (an int n is 10 * n, a   *)
(* bool 0 or 10), text the characters of a string, items the elements of a   *)
(* list.                                                                     *)
(***************************************************************************)
JNull == [type |-> "null", num |-> 0, text |-> <<>>, items |-> <<>>]
JBool(b) == [type |-> "bool", num |-> IF b THEN 10 ELSE 0, text |-> <<>>,
             items |-> <<>>]
JInt(n) == [type |-> "int", num |-> 10 * n, text |-> <<>>, items |-> <<>>]
JFloat(tenths) == [type |-> "float", num |-> tenths, text |-> <<>>, items |-> <<>>]
JInf == [type |-> "inf", num |-> 0, text |-> <<>>, items |-> <<>>]
JStr(cs) == [type |-> "string", num |-> 0, text |-> cs, items |-> <<>>]
JList(vs) == [type |-> "list", num |-> 0, text |-> <<>>, items |-> vs]

Valid(v) == [ok |-> TRUE, raises |-> "", value |-> v]
Invalid(kind) == [ok |-> FALSE, raises |-> kind, value |-> <<>>]

\* str.strip(): what lies between the first and the last non-blank character
Strip(cs) ==
    IF \A i \in 1..Len(cs) : cs[i] = " " THEN <<>>
    ELSE SubSeq(cs,
                CHOOSE i \in 1..Len(cs) :
                    cs[i] # " " /\ \A k \in 1..(i - 1) : cs[k] = " ",
                CHOOSE i \in 1..Len(cs) :
                    cs[i] # " " /\ \A k \in (i + 1)..Len(cs) : cs[k] = " ")

\* re.sub(r'[<>"\'\\]', '', title)
HarmfulChars == {"<", ">"}
RemoveHarmful(cs) == SelectSeq(cs, LAMBDA c : c \notin HarmfulChars)

\* re.sub(r'\s+', ' ', title): of a run of blanks the first one stays
CollapseSpaces(cs) ==
    LET kept == SelectSeq([i \in 1..Len(cs) |-> i],
                          LAMBDA i : ~(i > 1 /\ cs[i] = " " /\ cs[i - 1] = " "))
    IN  [k \in 1..Len(kept) |-> cs[kept[k]]]

sanitize_title(cs) == CollapseSpaces(RemoveHarmful(Strip(cs)))

RECURSIVE SanitizeTitles(_, _)
\* The loop over the titles: a non-string, an empty or an over-long title
\* raises ValidationError.
SanitizeTitles(items, acc) ==
    IF items = <<>> THEN Valid(acc)
    ELSE IF Head(items).type # "string" THEN Invalid("ValidationError")
    ELSE IF sanitize_title(Head(items).text) = <<>> THEN Invalid("ValidationError")
    ELSE IF Len(sanitize_title(Head(items).text)) > 200
    THEN Invalid("ValidationError")
    ELSE SanitizeTitles(Tail(items), Append(acc, sanitize_title(Head(items).text)))

RECURSIVE UniqueTitles(_, _, _)
\* Duplicates (compared in lower case) removed, order kept.
UniqueTitles(titles, seen, acc) ==
    IF titles = <<>> THEN acc
    ELSE IF Lower(Head(titles)) \in seen THEN UniqueTitles(Tail(titles), seen, acc)
    ELSE UniqueTitles(Tail(titles), seen \cup {Lower(Head(titles))},
                      Append(acc, Head(titles)))

validate_anime_titles(titles) ==
    IF titles.type # "list" THEN Invalid("ValidationError")
    ELSE IF titles.items = <<>> THEN Invalid("ValidationError")
    ELSE IF Len(titles.items) > 10 THEN Invalid("ValidationError")
    ELSE LET sanitized == SanitizeTitles(titles.items, <<>>)
         IN  IF ~sanitized.ok THEN sanitized
             ELSE Valid(UniqueTitles(sanitized.value, {}, <<>>))

\* int(text) of a string: decimal digits, no sign or blanks in the strings of
\* the model; anything else raises ValueError.
DigitValue(c) ==
    CASE c = "0" -> 0 [] c = "1" -> 1 [] c = "2" -> 2 [] c = "3" -> 3
      [] c = "4" -> 4 [] c = "5" -> 5 [] c = "6" -> 6 [] c = "7" -> 7
      [] c = "8" -> 8 [] c = "9" -> 9 [] OTHER -> 0 - 1
RECURSIVE DigitsValue(_, _)
DigitsValue(cs, acc) ==
    IF cs = <<>> THEN acc
    ELSE DigitsValue(Tail(cs), 10 * acc + DigitValue(Head(cs)))
ParseInt(cs) ==
    IF cs = <<>> \/ \E i \in 1..Len(cs) : DigitValue(cs[i]) < 0
    THEN Invalid("ValueError")
    ELSE Valid(DigitsValue(cs, 0))

\* int(x) of a number in tenths: truncation towards zero.
Truncate(tenths) ==
    IF tenths >= 0 THEN tenths \div 10 ELSE 0 - ((0 - tenths) \div 10)

\* The range check at the end of validate_max_recommendations.
MaxInRange(n) ==
    IF n < 1 THEN Invalid("ValidationError")
    ELSE IF n > 50 THEN Invalid("ValidationError")
    ELSE Valid(n)

\* validate_max_recommendations: None gives the default; a value that is no
\* int or float goes through int() with ValueError and TypeError turned into
\* ValidationError; int() of the number itself is outside that try block.
validate_max_recommendations(max_recs) ==
    CASE max_recs.type = "null" -> Valid(10)
      [] max_recs.type = "string" ->
            IF ParseInt(max_recs.text).ok
            THEN MaxInRange(ParseInt(max_recs.text).value)
            ELSE Invalid("ValidationError")
      [] max_recs.type = "list" -> Invalid("ValidationError")
      [] max_recs.type = "inf" -> Invalid("OverflowError")
      [] OTHER -> MaxInRange(Truncate(max_recs.num))

\* Bodies a client can post: anime_titles and max_recommendations; a key that
\* is absent reads as null (anime_titles) or as the default 10.
LongTitle == [i \in 1..201 |-> "a"]
TitleValues ==
    { JNull, JStr(<<"a">>), JInt(1), JList(<<>>),
      JList(<<JStr(<<"a">>)>>),
      JList(<<JStr(<<"a">>), JStr(<<"A">>), JStr(<<"b">>)>>),
      JList(<<JStr(<<" ", "a", " ", " ", "b", " ">>)>>),
      JList(<<JStr(<<"<", ">">>)>>),
      JList(<<JStr(<<"a">>), JInt(5)>>),
      JList(<<JStr(LongTitle)>>),
      JList([i \in 1..10 |-> JStr(<<"a">>)]),
      JList([i \in 1..11 |-> JStr(<<"a">>)]) }
MaxRecValues ==
    { JNull, JInt(0 - 1), JInt(0), JInt(1), JInt(10), JInt(50), JInt(51),
      JFloat(5), JFloat(15), JFloat(505), JFloat(510), JInf, JBool(TRUE),
      JStr(<<"5">>), JStr(<<"6", "0">>), JStr(<<"a", "b", "c">>),
      JStr(<<"5", ".", "5">>), JList(<<>>) }
ApiBodies ==
    { [anime_titles |-> titles, max_recommendations |-> maxrec] :
         titles \in TitleValues, maxrec \in MaxRecValues }
EngineOutcomes == {"returns", "raises"}

NoApiRequest == [anime_titles |-> JNull, max_recommendations |-> JNull]
NoApiResponse ==
    [code |-> 0, engine_called |-> FALSE, anime_titles |-> <<>>,
     max_recommendations |-> 0]

InitApi ==
    /\ api_request = NoApiRequest
    /\ api_response = NoApiResponse

\* POST /api/recommendations of AnimeRecommendationAPI: the validators run in
\* order, a ValidationError gives 400, any other exception 500; then the
\* engine is called.
ApiRecommendations(bodies, outcomes) ==
    /\ UNCHANGED <<engineVars, clientVars, funcVars, dbVars>>
    /\ \E body \in bodies, outcome \in outcomes :
         LET titles == validate_anime_titles(body.anime_titles)
             maxrec == validate_max_recommendations(body.max_recommendations)
             Rejected(code) ==
                 [code |-> code, engine_called |-> FALSE, anime_titles |-> <<>>,
                  max_recommendations |-> 0]
         IN  /\ api_request' = body
             /\ api_response' =
                  IF ~titles.ok THEN Rejected(400)
                  ELSE IF ~maxrec.ok
                  THEN Rejected(IF maxrec.raises = "ValidationError"
                                THEN 400 ELSE 500)
                  ELSE [code |-> IF outcome = "returns" THEN 200 ELSE 500,
                        engine_called |-> TRUE, anime_titles |-> titles.value,
                        max_recommendations |-> maxrec.value]

(***************************************************************************)
(* calculate_similarity_score.  Scores are exact fractions <<n, d>>, d > 0;  *)
(* ratings are in tenths.                                                    *)
(***************************************************************************)
RECURSIVE GCD(_, _)
GCD(a, b) == IF b = 0 THEN a ELSE GCD(b, a % b)
Frac(n, d) == IF n = 0 THEN <<0, 1>> ELSE <<n \div GCD(Abs(n), d), d \div GCD(Abs(n), d)>>
FAdd(x, y) == Frac(x[1] * y[2] + y[1] * x[2], x[2] * y[2])
FMul(x, y) == Frac(x[1] * y[1], x[2] * y[2])
FLeq(x, y) == x[1] * y[2] <= y[1] * x[2]
FMin(x, y) == IF FLeq(x, y) THEN x ELSE y
RECURSIVE FSum(_)
FSum(xs) == IF xs = <<>> THEN <<0, 1>> ELSE FAdd(Head(xs), FSum(Tail(xs)))

\* len(anime_genres.intersection(set(user_genres.keys())))
genre_overlap_count(anime, user_genres) ==
    Cardinality(ToSet(Val(anime.genres)) \cap Keys(user_genres))

\* 1. Genre similarity: the weights of the shared genres, the bonus for several
\* shared genres (the test for 2 comes before the test for 3), the cap at 1.0
\* and the weight 0.6.
GenreBonus(overlap) ==
    IF overlap >= 2 THEN <<3, 10>>
    ELSE IF overlap >= 3 THEN <<5, 10>>
    ELSE <<0, 1>>
genre_score(anime, user_genres) ==
    IF genre_overlap_count(anime, user_genres) > 0
    THEN FAdd(Frac(SumValues(SelectSeq(user_genres,
                       LAMBDA e : e[1] \in ToSet(Val(anime.genres)))),
                   SumValues(user_genres)),
              GenreBonus(genre_overlap_count(anime, user_genres)))
    ELSE <<0, 1>>
GenrePart(anime, user_genres) ==
    FMul(FMin(genre_score(anime, user_genres), <<1, 1>>), <<6, 10>>)

\* 2. Rating similarity.
RatingPart(anime, user_genres, avg_user_score) ==
    IF anime.score = None \/ Val(anime.score) <= 0 \/ avg_user_score <= 0
    THEN <<0, 1>>
    ELSE IF Abs(Val(anime.score) - avg_user_score) <= 5 THEN <<15, 100>>
    ELSE IF Abs(Val(anime.score) - avg_user_score) <= 10 THEN <<12, 100>>
    ELSE IF Abs(Val(anime.score) - avg_user_score) <= 15 THEN <<9, 100>>
    ELSE IF Abs(Val(anime.score) - avg_user_score) <= 20 THEN <<6, 100>>
    ELSE IF Val(anime.score) >= 70 /\ genre_overlap_count(anime, user_genres) > 0
    THEN <<3, 100>>
    ELSE <<0, 1>>

\* 3. Popularity balance: avg_user_popularity is 0 or 1 / rank.
PopularityPart(anime, avg_user_popularity) ==
    IF anime.popularity = None \/ Val(anime.popularity) <= 0 THEN <<0, 1>>
    ELSE IF avg_user_popularity[1] > 0
    THEN FMul(FMin(FMul(<<1, Val(anime.popularity)>>,
                        <<avg_user_popularity[2], avg_user_popularity[1]>>),
                   FMul(avg_user_popularity, <<Val(anime.popularity), 1>>)),
              <<10, 100>>)
    ELSE IF Val(anime.popularity) <= 1000 THEN <<8, 100>>
    ELSE IF Val(anime.popularity) <= 5000 THEN <<6, 100>>
    ELSE IF Val(anime.popularity) <= 10000 THEN <<4, 100>>
    ELSE <<0, 1>>

\* 4. Studio preference: the loop over the set anime_studios stops at the first
\* studio of the profile; first is that studio, None if the item has none.
MatchingStudios(anime, user_studios) == ToSet(anime.studios) \cap Keys(user_studios)
StudioPart(first, user_studios) ==
    IF first = None THEN <<0, 1>>
    ELSE FMul(Frac(DictGet(user_studios, Val(first), 0), Len(user_studios)),
              <<10, 100>>)

\* 5. Quality and diversity bonus.
BonusPart(anime) ==
    FSum(<< IF anime.members # None /\ Val(anime.members) > 50000
            THEN <<2, 100>> ELSE <<0, 1>>,
            IF anime.score # None /\ Val(anime.score) >= 75
            THEN <<2, 100>> ELSE <<0, 1>>,
            IF /\ anime.popularity # None
               /\ 1000 < Val(anime.popularity)
               /\ Val(anime.popularity) <= 10000
               /\ anime.score # None
               /\ Val(anime.score) >= 70
            THEN <<1, 100>> ELSE <<0, 1>> >>)

\* The whole function: iterating a null genre list raises, and the handler
\* returns 0.1; otherwise min(score, 1.0).
calculate_similarity_score(call, first) ==
    IF call.anime.genres = None
    THEN [raised |-> TRUE, genre |-> <<0, 1>>, rating |-> <<0, 1>>,
          popularity |-> <<0, 1>>, studio |-> <<0, 1>>, bonus |-> <<0, 1>>,
          returned |-> <<1, 10>>]
    ELSE LET genre == GenrePart(call.anime, call.user_genres)
             rating == RatingPart(call.anime, call.user_genres, call.avg_user_score)
             popularity == PopularityPart(call.anime, call.avg_user_popularity)
             studio == StudioPart(first, call.user_studios)
             bonus == BonusPart(call.anime)
         IN  [raised |-> FALSE, genre |-> genre, rating |-> rating,
              popularity |-> popularity, studio |-> studio, bonus |-> bonus,
              returned |-> FMin(FSum(<<genre, rating, popularity, studio, bonus>>),
                                <<1, 1>>)]

\* Arguments of the calls of the model.
SimGenreLists ==
    { None, Some(<<>>), Some(<<"Action">>), Some(<<"Action", "Drama">>),
      Some(<<"Action", "Drama", "Comedy">>), Some(<<"Horror">>) }
SimUserGenres ==
    { <<>>, << <<"Action", 1>> >>, << <<"Action", 2>>, <<"Drama", 1>> >>,
      << <<"Action", 1>>, <<"Drama", 1>>, <<"Comedy", 1>>, <<"Sports", 2>> >> }
SimScores == { None, Some(60), Some(70), Some(75), Some(85) }
SimAvgScores == { 0, 80 }
SimPopularities == { None, Some(500), Some(3000), Some(20000) }
SimAvgPopularities == { <<0, 1>>, <<1, 3000>> }
SimStudioLists == { <<>>, <<"Mappa">>, <<"Mappa", "Bones">> }
SimUserStudios ==
    { <<>>, << <<"Mappa", 1>> >>, << <<"Mappa", 2>> >>,
      << <<"Mappa", 3>>, <<"Bones", 1>> >> }
SimMembers == { None, Some(60000) }
SimCalls ==
    { [anime |-> [genres |-> g, score |-> sc, popularity |-> p, studios |-> st,
                  members |-> m],
       user_genres |-> ug, user_studios |-> us, avg_user_score |-> avg,
       avg_user_popularity |-> ap] :
         g \in SimGenreLists, sc \in SimScores, p \in SimPopularities,
         st \in SimStudioLists, m \in SimMembers, ug \in SimUserGenres,
         us \in SimUserStudios, avg \in SimAvgScores, ap \in SimAvgPopularities }

NoSimCall == None
NoSimScore == None
NoDivCall == None
NoDivResult == None
NoSynCall == None
NoSynResult == None
InitFunc ==
    /\ sim_call = NoSimCall
    /\ sim_score = NoSimScore
    /\ div_call = NoDivCall
    /\ div_result = NoDivResult
    /\ syn_call = NoSynCall
    /\ syn_result = NoSynResult

\* The call of calculate_similarity_score on the arguments drawn; the set anime_studios is iterated in
\* an order the process fixes, so any studio of the profile can be the first.
SimilarityCall ==
    /\ UNCHANGED <<engineVars, clientVars, apiVars, dbVars>>
    /\ sim_call # NoSimCall
    /\ sim_score = NoSimScore
    /\ LET call == Val(sim_call)
       IN \E first \in IF call.anime.genres = None
                         \/ MatchingStudios(call.anime, call.user_studios) = {}
                      THEN {None}
                      ELSE { Some(s) : s \in MatchingStudios(call.anime,
                                                             call.user_studios) } :
            /\ sim_score' = Some(calculate_similarity_score(call, first))
            /\ UNCHANGED <<sim_call, div_call, div_result, syn_call, syn_result>>

(***************************************************************************)
(* ensure_diversity.                                                         *)
(***************************************************************************)
RECURSIVE DiversityPass(_, _, _, _, _)
\* First pass: a recommendation is taken while fewer than max // 2 are taken,
\* or when it has a genre or a studio none of the taken ones has.
DiversityPass(recs, final_recs, used_genres, used_studios, maxrec) ==
    IF recs = <<>> \/ Len(final_recs) >= maxrec THEN final_recs
    ELSE IF \/ Len(final_recs) < maxrec \div 2
            \/ ToSet(Head(recs).genres) \ used_genres # {}
            \/ ToSet(Head(recs).studios) \ used_studios # {}
    THEN DiversityPass(Tail(recs), Append(final_recs, Head(recs)),
                       used_genres \cup ToSet(Head(recs).genres),
                       used_studios \cup ToSet(Head(recs).studios), maxrec)
    ELSE DiversityPass(Tail(recs), final_recs, used_genres, used_studios, maxrec)

\* A faulty variant of ensure_diversity: the second pass fills from the whole
\* input, taken or not.
ensure_diversity_refill(recommendations, maxrec) ==
    IF Len(recommendations) <= maxrec THEN recommendations
    ELSE LET final_recs == DiversityPass(recommendations, <<>>, {}, {}, maxrec)
         IN  final_recs \o Prefix(recommendations, maxrec - Len(final_recs))

\* Second pass: the remaining slots go to the first recommendations not taken.
ensure_diversity(recommendations, maxrec) ==
    IF Len(recommendations) <= maxrec THEN recommendations
    ELSE LET final_recs == DiversityPass(recommendations, <<>>, {}, {}, maxrec)
             remaining_recs ==
                 SelectSeq(recommendations, LAMBDA r : r \notin ToSet(final_recs))
         IN  IF maxrec - Len(final_recs) > 0
             THEN final_recs \o Prefix(remaining_recs, maxrec - Len(final_recs))
             ELSE final_recs

\* Recommendations handed to ensure_diversity: lists of distinct items in
\* descending order of score, as the ranking step leaves them.
DivItem(id, genres, studios, score) ==
    [mal_id |-> id, genres |-> genres, studios |-> studios,
     similarity_score |-> score]
DivPool ==
    << DivItem(1, <<"Action">>, <<"Mappa">>, 90),
       DivItem(2, <<"Action">>, <<"Mappa">>, 80),
       DivItem(3, <<"Action", "Drama">>, <<"Mappa">>, 70),
       DivItem(4, <<"Action">>, <<"Bones">>, 60),
       DivItem(5, <<"Action">>, <<"Mappa">>, 50) >>
DivLists ==
    { SelectSeq(DivPool, LAMBDA r : r.mal_id \in ids) : ids \in SUBSET (1..5) }
DivMaxes == 0..4
DivCalls ==
    { [recommendations |-> recs, max_recommendations |-> m] :
         recs \in DivLists, m \in DivMaxes }

\* The call of ensure_diversity on the arguments drawn.
DiversityCall ==
    /\ UNCHANGED <<engineVars, clientVars, apiVars, dbVars>>
    /\ div_call # NoDivCall
    /\ div_result = NoDivResult
    /\ div_result' = Some(ensure_diversity(Val(div_call).recommendations,
                                           Val(div_call).max_recommendations))
    /\ UNCHANGED <<sim_call, sim_score, div_call, syn_call, syn_result>>

(***************************************************************************)
(* The synopsis of an output item.  A text is the sequence of its            *)
(* characters; the three dots appended count as one element.                 *)
(***************************************************************************)
\* anime.get("synopsis", "")[:200] + "..." if anime.get("synopsis") else "":
\* the item dicts of get_recommendations, of the fallback list, of search and
\* of trending.
index_synopsis(synopsis) ==
    IF synopsis # None /\ Val(synopsis) # <<>>
    THEN Prefix(Val(synopsis), 200) \o <<"...">>
    ELSE <<>>

\* AnimeRecommendation.to_dict: synopsis is a str.
to_dict_synopsis(synopsis) ==
    IF Len(synopsis) > 200 THEN Prefix(synopsis, 200) \o <<"...">>
    ELSE synopsis

SynopsisLengths == {0, 1, 2, 3, 100, 199, 200, 201, 202, 250}
SynopsisTexts == { [i \in 1..n |-> "a"] : n \in SynopsisLengths }
IndexOutputs == {"get_recommendations", "fallback", "search", "trending"}
SynCalls ==
    { [output |-> o, synopsis |-> syn] :
         o \in IndexOutputs, syn \in {None} \cup { Some(t) : t \in SynopsisTexts } }
      \cup { [output |-> "to_dict", synopsis |-> Some(t)] : t \in SynopsisTexts }

\* The output item is built from the catalog item drawn.
FormatSynopsis ==
    /\ UNCHANGED <<engineVars, clientVars, apiVars, dbVars>>
    /\ syn_call # NoSynCall
    /\ syn_result = NoSynResult
    /\ syn_result' =
         Some(IF Val(syn_call).output \in IndexOutputs
              THEN index_synopsis(Val(syn_call).synopsis)
              ELSE to_dict_synopsis(Val(Val(syn_call).synopsis)))
    /\ UNCHANGED <<sim_call, sim_score, div_call, div_result, syn_call>>

(***************************************************************************)
(* AnimeRecommendationEngine (src/services/recommendation_engine.py).       *)
(***************************************************************************)
\* Anime as MALService hands them over.  They share their genres, their
\* synopsis and an unknown popularity, so the genre, synopsis, popularity and
\* semantic parts of _calculate_similarity are the same for every candidate
\* of a call and the rating part orders the list.  score is in tenths.
MalAnime(id, title, english, score) ==
    [mal_id |-> id, title |-> Some(title), title_english |-> english,
     title_japanese |-> None, score |-> score, genres |-> <<"Action">>,
     synopsis |-> <<"s">>, popularity |-> None]
MalCatalog ==
    << MalAnime(1, <<"a", "b">>, None, 90),
       MalAnime(2, <<"c", "d">>, Some(<<"e", "f">>), 80),
       MalAnime(3, <<"g", "h">>, None, 70),
       MalAnime(4, <<"i", "j">>, None, 0) >>

\* Length of anime_database up to which the model follows the engine.
MaxDb == 3

\* anime.score > 0 and anime.genres and anime.synopsis
SufficientData(anime) ==
    anime.score > 0 /\ anime.genres # <<>> /\ anime.synopsis # <<>>

\* initialize_database: the database after the call, top_anime_data being
\* what get_top_anime(limit=500) answered.
initialize_database(database, force_refresh, top_anime_data) ==
    IF database # <<>> /\ ~force_refresh THEN database
    ELSE SelectSeq(top_anime_data, SufficientData)

\* _titles_match
titles_match(search_title, anime) ==
    LET search_lower == Strip(Lower(search_title))
        titles_to_check ==
            <<anime.title, anime.title_english, anime.title_japanese>>
    IN \E i \in 1..3 :
          LET title == titles_to_check[i]
          IN /\ title # None
             /\ Val(title) # <<>>
             /\ \/ Contains(search_lower, Lower(Val(title)))
                \/ Contains(Lower(Val(title)), search_lower)

\* _find_input_anime: the list it returns and the database it leaves.
\* answers[k] is what search_anime answers for the k-th title, were it asked.
RECURSIVE find_input_anime(_, _, _, _)
find_input_anime(database, titles, answers, input) ==
    IF titles = <<>>
    THEN [input_anime |-> input, anime_database |-> database]
    ELSE LET title == Head(titles)
             hits == { i \in 1..Len(database) : titles_match(title, database[i]) }
             anime_data == Head(answers)
         IN IF hits # {}
            THEN find_input_anime(database, Tail(titles), Tail(answers),
                     Append(input,
                            database[CHOOSE i \in hits : \A j \in hits : i <= j]))
            ELSE IF anime_data = None
            THEN find_input_anime(database, Tail(titles), Tail(answers), input)
            ELSE find_input_anime(
                     IF SufficientData(Val(anime_data))
                     THEN Append(database, Val(anime_data)) ELSE database,
                     Tail(titles), Tail(answers),
                     Append(input, Val(anime_data)))

\* _calculate_rating_similarity, scaled by 50 * len(input_scores) to stay in
\* the integers: max(0, 1.0 - abs(candidate.score - mean(input_scores)) / 5.0),
\* and 0.5 without input scores.
rating_similarity(input, candidate) ==
    LET input_scores == SelectSeq(input, LAMBDA a : a.score > 0)
        n == Len(input_scores)
        total == SumSeq([i \in 1..n |-> input_scores[i].score])
        diff == Abs(n * candidate.score - total)
    IN IF n = 0 THEN 25
       ELSE IF diff > 50 * n THEN 0 ELSE 50 * n - diff

\* get_recommendations of the engine: the list returned (the anime of each
\* AnimeRecommendation) and the database left.
engine_recommendations(database, titles, maxrec, min_score, top, answers) ==
    LET loaded == IF database = <<>>
                  THEN initialize_database(database, FALSE, top)
                  ELSE database
        found == find_input_anime(loaded, titles, answers, <<>>)
        input_anime_ids ==
            { found.input_anime[i].mal_id : i \in 1..Len(found.input_anime) }
        candidates ==
            SelectSeq(found.anime_database,
                      LAMBDA c : c.mal_id \notin input_anime_ids
                                 /\ c.score >= min_score)
        keys == [i \in 1..Len(candidates) |->
                    rating_similarity(found.input_anime, candidates[i])]
        ranked == SortDesc(candidates, keys)
    IN [anime_database |-> found.anime_database,
        recommendations |->
            IF found.input_anime = <<>> THEN <<>>
            ELSE SubSeq(ranked, 1,
                        IF maxrec < Len(ranked) THEN maxrec ELSE Len(ranked))]

\* What the callers and the catalog hand to the engine.
TopAnimeLists ==
    { <<>>, <<MalCatalog[1], MalCatalog[2], MalCatalog[3]>>,
      <<MalCatalog[2], MalCatalog[4]>> }
\* get_top_anime answers when it is asked, that is for an empty database.
TopAnswers(database) == IF database = <<>> THEN TopAnimeLists ELSE { <<>> }
EngineTitles == { <<"k">>, <<"a">>, <<" ", "E", "f">>, <<"i", "j">> }
EngineTitleLists ==
    { <<t>> : t \in EngineTitles } \cup { <<"k">> } \X { <<"a">> }
SearchAnswers == { None } \cup { Some(MalCatalog[i]) : i \in {1, 2, 4} }
AnswerLists(titles) == [1..Len(titles) -> SearchAnswers]
EngineMaxes == {1, 3}
EngineMinScores == {70, 85}

NoRecommendations == None
InitDb ==
    /\ anime_database = <<>>
    /\ last_recommendations = NoRecommendations

\* engine.initialize_database(force_refresh)
InitializeDatabase ==
    /\ UNCHANGED <<engineVars, clientVars, apiVars, funcVars>>
    /\ \E force_refresh \in BOOLEAN :
         \E top_anime_data \in IF force_refresh THEN TopAnimeLists
                                ELSE TopAnswers(anime_database) :
          anime_database' =
              initialize_database(anime_database, force_refresh, top_anime_data)
    /\ UNCHANGED last_recommendations

\* engine._find_input_anime(titles)
FindInputAnime ==
    /\ UNCHANGED <<engineVars, clientVars, apiVars, funcVars>>
    /\ \E titles \in EngineTitleLists :
         \E answers \in AnswerLists(titles) :
            LET found == find_input_anime(anime_database, titles, answers, <<>>)
            IN /\ Len(found.anime_database) <= MaxDb
               /\ anime_database' = found.anime_database
    /\ UNCHANGED last_recommendations

\* engine.get_recommendations(titles, max_recommendations, min_score)
GetRecommendations ==
    /\ UNCHANGED <<engineVars, clientVars, apiVars, funcVars>>
    /\ \E titles \in EngineTitleLists, maxrec \in EngineMaxes,
          min_score \in EngineMinScores,
          top_anime_data \in TopAnswers(anime_database) :
         \E answers \in AnswerLists(titles) :
            LET out == engine_recommendations(anime_database, titles, maxrec,
                                              min_score, top_anime_data, answers)
            IN /\ Len(out.anime_database) <= MaxDb
               /\ anime_database' = out.anime_database
               /\ last_recommendations' = Some(out.recommendations)

(***************************************************************************)
(* State.                                                                   *)
(***************************************************************************)
\* Genre names a profile can hold; a process fixes one iteration order for
\* sets of them (string hashing is seeded per process).
SeedGenres ==
    { g : g \in UNION { ToSet(Val(Catalog[i].genres)) :
                           i \in { j \in SeedIds : Catalog[j].genres # None } } }
Orders ==
    { order : order \in
        { f \in [1..Cardinality(SeedGenres) -> SeedGenres] :
              \A i, j \in DOMAIN f : i # j => f[i] # f[j] } }

\* The locals of get_recommendations and of the endpoint, before a request.
RunIs(list, maxrec) ==
    /\ user_anime_list' = list
    /\ max_recommendations' = maxrec
    /\ seed_idx' = 1
    /\ user_anime_data' = <<>>
    /\ user_profile' = EmptyProfile
    /\ search_queries' = <<>>
    /\ search_log' = <<>>
    /\ lookup_log' = <<>>
    /\ all_candidates' = <<>>
    /\ seen_anime_ids' = {}
    /\ search_errors' = {}
    /\ raised' = FALSE
    /\ result' = <<>>
    /\ fallback_anime' = <<>>
    /\ recommendations_list' = <<>>

\* Nothing has been asked of the engine, the clients and the endpoints.
InitIdle ==
    /\ anime_cache = <<>>
    /\ hash_order \in Orders
    /\ pc = "idle"
    /\ user_anime_list = <<>>
    /\ max_recommendations = 0
    /\ seed_idx = 1
    /\ user_anime_data = <<>>
    /\ user_profile = EmptyProfile
    /\ search_queries = <<>>
    /\ search_log = <<>>
    /\ lookup_log = <<>>
    /\ all_candidates = <<>>
    /\ seen_anime_ids = {}
    /\ search_errors = {}
    /\ raised = FALSE
    /\ result = <<>>
    /\ fallback_anime = <<>>
    /\ recommendations_list = <<>>
    /\ response = NoResponse
    /\ saved = NoRun
    /\ probe = None
    /\ verdict = "unset"
    /\ InitClient
    /\ InitApi
    /\ InitDb

Init ==
    /\ InitIdle
    /\ InitFunc

Min(a, b) == IF a < b THEN a ELSE b

(***************************************************************************)
(* POST /api/recommendations: a valid body reaches the engine.              *)
(***************************************************************************)
RecommendationsRequest(lists, maxes) ==
    /\ UNCHANGED <<clientVars, apiVars, funcVars, dbVars>>
    /\ (pc = "idle" \/ pc = "done")
    /\ \E list \in lists, m \in maxes : RunIs(list, Min(m, 25))
    /\ pc' = "profile"
    /\ response' = NoResponse
    /\ UNCHANGED <<anime_cache, hash_order, saved, probe, verdict>>

\* Bodies the endpoint answers without a call of the engine: user_anime_list a
\* string, null, an empty list, a list holding neither id nor title, or a list
\* of one id; max_recommendations a number, a string or null.
RejectLists ==
    { JStr(<<"a">>), JNull, JList(<<>>), JList(<<JFloat(15)>>),
      JList(<<JInt(1)>>) }
RejectMaxes == { JInt(0), JInt(3), JStr(<<"a", "b", "c">>), JNull }
RejectBodies ==
    { [user_anime_list |-> list, max_recommendations |-> m] :
         list \in RejectLists, m \in RejectMaxes }

\* The status the endpoint returns before the engine is reached, 0 if it goes
\* on to the engine: min(max_recommendations, 25) raises TypeError on a value
\* that is not a number (status 500); then the checks of user_anime_list and
\* of processed_anime_list (status 400).  No check looks at the size of
\* max_recommendations.
EarlyReturn(body) ==
    IF body.max_recommendations.type \notin {"int", "float", "bool"} THEN 500
    ELSE IF body.user_anime_list.type # "list" THEN 400
    ELSE IF body.user_anime_list.items = <<>> THEN 400
    ELSE IF SelectSeq(body.user_anime_list.items,
                      LAMBDA v : v.type = "int") = <<>> THEN 400
    ELSE 0

RecommendationsRejected(bodies) ==
    /\ UNCHANGED <<clientVars, apiVars, funcVars, dbVars>>
    /\ (pc = "idle" \/ pc = "done")
    /\ \E body \in bodies :
         /\ EarlyReturn(body) # 0
         /\ response' = ErrorEnvelope("recommendations", EarlyReturn(body))
    /\ pc' = "idle"
    /\ RunIs(<<>>, 0)
    /\ UNCHANGED <<anime_cache, hash_order, saved, probe, verdict>>

\* OPTIONS /api/recommendations: an empty body with status code 200.
RecommendationsPreflight ==
    /\ UNCHANGED <<clientVars, apiVars, funcVars, dbVars>>
    /\ (pc = "idle" \/ pc = "done")
    /\ response' = [kind |-> "preflight", status |-> "none", code |-> 200,
                    items |-> <<>>, fallback_used |-> FALSE, message |-> FALSE]
    /\ pc' = "idle"
    /\ RunIs(<<>>, 0)
    /\ UNCHANGED <<anime_cache, hash_order, saved, probe, verdict>>

\* A faulty variant of LookupSeed: a fetched item is not put into the cache.
LookupSeedForgetful ==
    /\ UNCHANGED <<clientVars, apiVars, funcVars, dbVars>>
    /\ pc = "profile"
    /\ seed_idx <= Len(user_anime_list)
    /\ LET id == user_anime_list[seed_idx]
           Resolved(data, how) ==
               /\ lookup_log' = Append(lookup_log, <<id, how>>)
               /\ IF ProfileAddRaises(data)
                  THEN /\ raised' = TRUE
                       /\ pc' = "respond"
                       /\ UNCHANGED <<user_anime_data, user_profile, seed_idx>>
                  ELSE /\ user_anime_data' = Append(user_anime_data, data)
                       /\ user_profile' = ProfileAdd(user_profile, data)
                       /\ seed_idx' = seed_idx + 1
                       /\ UNCHANGED <<raised, pc>>
       IN  IF id \in DOMAIN anime_cache
           THEN /\ Resolved(anime_cache[id], "hit")
                /\ UNCHANGED anime_cache
           ELSE \/ /\ id \in CatalogIds
                   /\ UNCHANGED anime_cache
                   /\ Resolved(Catalog[id], "ok")
                \/ /\ lookup_log' = Append(lookup_log, <<id, "fail">>)
                   /\ seed_idx' = seed_idx + 1
                   /\ UNCHANGED <<anime_cache, user_anime_data, user_profile,
                                  raised, pc>>
    /\ UNCHANGED <<hash_order, user_anime_list, max_recommendations,
                   search_queries, search_log, all_candidates, seen_anime_ids,
                   search_errors, result, fallback_anime, recommendations_list, response,
                   saved, probe, verdict>>

\* One iteration of the seed loop: get_anime_details, then the counts.
LookupSeed ==
    /\ UNCHANGED <<clientVars, apiVars, funcVars, dbVars>>
    /\ pc = "profile"
    /\ seed_idx <= Len(user_anime_list)
    /\ LET id == user_anime_list[seed_idx]
           Resolved(data, how) ==
               /\ lookup_log' = Append(lookup_log, <<id, how>>)
               /\ IF ProfileAddRaises(data)
                  THEN /\ raised' = TRUE
                       /\ pc' = "respond"
                       /\ UNCHANGED <<user_anime_data, user_profile, seed_idx>>
                  ELSE /\ user_anime_data' = Append(user_anime_data, data)
                       /\ user_profile' = ProfileAdd(user_profile, data)
                       /\ seed_idx' = seed_idx + 1
                       /\ UNCHANGED <<raised, pc>>
       IN  IF id \in DOMAIN anime_cache
           THEN /\ Resolved(anime_cache[id], "hit")
                /\ UNCHANGED anime_cache
           ELSE \/ /\ id \in CatalogIds
                   /\ anime_cache' =
                        [i \in DOMAIN anime_cache \cup {id} |->
                            IF i = id THEN Catalog[id] ELSE anime_cache[i]]
                   /\ Resolved(Catalog[id], "ok")
                \/ /\ lookup_log' = Append(lookup_log, <<id, "fail">>)
                   /\ seed_idx' = seed_idx + 1
                   /\ UNCHANGED <<anime_cache, user_anime_data, user_profile,
                                  raised, pc>>
    /\ UNCHANGED <<hash_order, user_anime_list, max_recommendations,
                   search_queries, search_log, all_candidates, seen_anime_ids,
                   search_errors, result, fallback_anime, recommendations_list, response,
                   saved, probe, verdict>>

\* After the loop: average score, top genres, preferred studios, queries.
PlanQueries ==
    /\ UNCHANGED <<clientVars, apiVars, funcVars, dbVars>>
    /\ pc = "profile"
    /\ seed_idx > Len(user_anime_list)
    /\ IF ScoresRaise(user_anime_data)
       THEN /\ raised' = TRUE
            /\ pc' = "respond"
            /\ UNCHANGED <<user_profile, search_queries, seen_anime_ids>>
       ELSE /\ user_profile' =
                 [user_profile EXCEPT !.avg_score = AvgScore(user_anime_data)]
            /\ search_queries' = PlannedQueries(user_profile')
            /\ seen_anime_ids' = ToSet(user_anime_list)
            /\ pc' = "search"
            /\ UNCHANGED raised
    /\ UNCHANGED <<anime_cache, hash_order, user_anime_list, max_recommendations,
                   seed_idx, user_anime_data, search_log, lookup_log,
                   all_candidates, search_errors, result, fallback_anime, recommendations_list,
                   response, saved, probe, verdict>>

\* A faulty variant of SearchQuery: a failed upstream call is not turned into
\* an empty result but leaves get_recommendations as an exception.
SearchQueryAborting(outcomes) ==
    /\ UNCHANGED <<clientVars, apiVars, funcVars, dbVars>>
    /\ pc = "search"
    /\ Len(search_log) < Len(search_queries)
    /\ \E outcome \in outcomes :
         LET query == search_queries[Len(search_log) + 1]
             acc == ProcessResults(ItemsOf(outcome), query, user_profile,
                        [cands |-> all_candidates, seen |-> seen_anime_ids,
                         error |-> ""])
         IN  /\ search_log' = Append(search_log, <<query, outcome>>)
             /\ all_candidates' = acc.cands
             /\ seen_anime_ids' = acc.seen
             /\ search_errors' =
                  IF acc.error = "" THEN search_errors
                  ELSE search_errors \cup {acc.error}
             /\ raised' = ~outcome.ok
             /\ pc' = IF outcome.ok THEN pc ELSE "respond"
    /\ UNCHANGED <<anime_cache, hash_order, user_anime_list,
                   max_recommendations, seed_idx, user_anime_data, user_profile,
                   search_queries, lookup_log, result, fallback_anime,
                   recommendations_list, response, saved, probe, verdict>>

\* One iteration of the query loop: search_anime, then the filter and scoring.
SearchQuery(outcomes) ==
    /\ UNCHANGED <<clientVars, apiVars, funcVars, dbVars>>
    /\ pc = "search"
    /\ Len(search_log) < Len(search_queries)
    /\ \E outcome \in outcomes :
         LET query == search_queries[Len(search_log) + 1]
             acc == ProcessResults(ItemsOf(outcome), query, user_profile,
                        [cands |-> all_candidates, seen |-> seen_anime_ids,
                         error |-> ""])
         IN  /\ search_log' = Append(search_log, <<query, outcome>>)
             /\ all_candidates' = acc.cands
             /\ seen_anime_ids' = acc.seen
             /\ search_errors' =
                  IF acc.error = "" THEN search_errors
                  ELSE search_errors \cup {acc.error}
    /\ UNCHANGED <<anime_cache, hash_order, pc, user_anime_list,
                   max_recommendations, seed_idx, user_anime_data, user_profile,
                   search_queries, lookup_log, raised, result,
                   fallback_anime, recommendations_list, response, saved, probe, verdict>>

\* Steps 4 and 5: sort, select, return.
SelectFinal ==
    /\ UNCHANGED <<clientVars, apiVars, funcVars, dbVars>>
    /\ pc = "search"
    /\ Len(search_log) = Len(search_queries)
    /\ result' = FinalRecommendations(all_candidates, max_recommendations,
                                      user_profile, hash_order)
    /\ pc' = "respond"
    /\ UNCHANGED <<anime_cache, hash_order, user_anime_list, max_recommendations,
                   seed_idx, user_anime_data, user_profile, search_queries,
                   search_log, lookup_log, all_candidates, seen_anime_ids,
                   search_errors, raised, fallback_anime, recommendations_list, response, saved,
                   probe, verdict>>

\* The engine returned an empty list: the endpoint asks for the top anime and
\* builds the fallback list.
Fallback(tops) ==
    /\ UNCHANGED <<clientVars, apiVars, funcVars, dbVars>>
    /\ pc = "respond"
    /\ ~raised
    /\ result = <<>>
    /\ \E top \in tops :
         /\ fallback_anime' = ItemsOf(top)
         /\ recommendations_list' =
              FallbackRecommendations(top, user_anime_list, max_recommendations)
    /\ pc' = "reply"
    /\ UNCHANGED <<anime_cache, hash_order, user_anime_list, max_recommendations,
                   seed_idx, user_anime_data, user_profile, search_queries,
                   search_log, lookup_log, all_candidates, seen_anime_ids,
                   search_errors, raised, result, response, saved, probe,
                   verdict>>

\* fallback_used of the response.
AllFallback(items) ==
    /\ items # <<>>
    /\ \A i \in 1..Len(items) :
          items[i].reason = << <<"Popular anime recommendation">> >>

\* The list the endpoint answers with: the engine's, or the fallback.
AnswerList == IF pc = "reply" THEN recommendations_list ELSE result

\* The envelope: success with the list, or the 500 of the handler when the
\* engine raised.  The locals of the request end with it.
Reply ==
    /\ UNCHANGED <<clientVars, apiVars, funcVars, dbVars>>
    /\ \/ pc = "reply"
       \/ pc = "respond" /\ (raised \/ result # <<>>)
    /\ response' =
         IF raised
         THEN ErrorEnvelope("recommendations", 500)
         ELSE [kind |-> "recommendations", status |-> "success", code |-> 200,
               items |-> AnswerList, fallback_used |-> AllFallback(AnswerList),
               message |-> FALSE]
    /\ pc' = "done"
    /\ RunIs(<<>>, 0)
    /\ UNCHANGED <<anime_cache, hash_order, saved, probe, verdict>>

(***************************************************************************)
(* GET /api/search and GET /api/trending.                                   *)
(***************************************************************************)
\* The query string: limit absent, a number, or a text that is no number;
\* q absent, blank, or a word.
LimitArgs ==
    { None, Some(<<"5">>), Some(<<"3", "0">>), Some(<<"a", "b", "c">>),
      Some(<<>>) }
QueryArgs == { None, Some(<<" ">>), Some(<<"a">>) }

\* min(int(request.args.get('limit', 10)), 25): the default is the number
\* 10, a given value is the text of the query string.
QueryLimit(arg) ==
    IF arg = None THEN Valid(10)
    ELSE IF ~ParseInt(Val(arg)).ok THEN ParseInt(Val(arg))
    ELSE Valid(IF ParseInt(Val(arg)).value < 25
               THEN ParseInt(Val(arg)).value ELSE 25)

\* search: the limit is converted before the try block and before q is
\* looked at.
SearchResponse(q, limit, outcome) ==
    IF ~QueryLimit(limit).ok THEN Unhandled("search")
    ELSE IF Strip(IF q = None THEN <<>> ELSE Val(q)) = <<>>
    THEN ErrorEnvelope("search", 400)
    ELSE Listing("search", outcome)

\* trending: the limit is converted before the try block.
TrendingResponse(limit, top) ==
    IF ~QueryLimit(limit).ok THEN Unhandled("trending")
    ELSE Listing("trending", top)

SearchEndpoint(outcomes) ==
    /\ UNCHANGED <<clientVars, apiVars, funcVars, dbVars>>
    /\ (pc = "idle" \/ pc = "done")
    /\ \E outcome \in outcomes, q \in QueryArgs, limit \in LimitArgs :
          response' = SearchResponse(q, limit, outcome)
    /\ pc' = "idle"
    /\ RunIs(<<>>, 0)
    /\ UNCHANGED <<anime_cache, hash_order, saved, probe, verdict>>

TrendingEndpoint(tops) ==
    /\ UNCHANGED <<clientVars, apiVars, funcVars, dbVars>>
    /\ (pc = "idle" \/ pc = "done")
    /\ \E top \in tops, limit \in LimitArgs :
          response' = TrendingResponse(limit, top)
    /\ pc' = "idle"
    /\ RunIs(<<>>, 0)
    /\ UNCHANGED <<anime_cache, hash_order, saved, probe, verdict>>

Next ==
    \/ RecommendationsRequest(SeedLists, MaxValues)
    \/ RecommendationsRejected(RejectBodies)
    \/ RecommendationsPreflight
    \/ LookupSeed
    \/ PlanQueries
    \/ SearchQuery(SearchOutcomes)
    \/ SelectFinal
    \/ Fallback(TopOutcomes)
    \/ Reply
    \/ SearchEndpoint(SearchOutcomes)
    \/ TrendingEndpoint(TopOutcomes)

Spec == Init /\ [][Next]_vars

(***************************************************************************)
(* Two processes.  A run of get_recommendations is remembered, the process  *)
(* is replaced by a fresh one (empty cache, another hash seed, hence         *)
(* another iteration order of string sets), and the request is served again. *)
(***************************************************************************)
IdemSeedLists == { <<1>> }
IdemMaxValues == {1, 2}

\* Which seeds the catalog resolved, whether read from the cache or fetched.
Resolutions(log) == [i \in 1..Len(log) |-> <<log[i][1], log[i][2] # "fail">>]

RememberRun ==
    /\ UNCHANGED <<clientVars, apiVars, funcVars, dbVars>>
    /\ pc = "respond"
    /\ saved = NoRun
    /\ saved' = [seeds |-> user_anime_list, max |-> max_recommendations,
                 lookups |-> Resolutions(lookup_log), searches |-> search_log,
                 raised |-> raised, result |-> result]
    /\ UNCHANGED <<anime_cache, hash_order, pc, user_anime_list,
                   max_recommendations, seed_idx, user_anime_data, user_profile,
                   search_queries, search_log, lookup_log, all_candidates,
                   seen_anime_ids, search_errors, raised, result, fallback_anime,
                   recommendations_list, response, probe, verdict>>

ProcessRestart ==
    /\ UNCHANGED <<clientVars, apiVars, funcVars, dbVars>>
    /\ (pc = "idle" \/ pc = "done")
    /\ anime_cache' = <<>>
    /\ hash_order' \in Orders
    /\ pc' = "idle"
    /\ response' = NoResponse
    /\ UNCHANGED <<user_anime_list, max_recommendations, seed_idx,
                   user_anime_data, user_profile, search_queries, search_log,
                   lookup_log, all_candidates, seen_anime_ids, search_errors,
                   raised, result, fallback_anime, recommendations_list, saved,
                   probe, verdict>>

NextIdem ==
    \/ RecommendationsRequest(IdemSeedLists, IdemMaxValues)
    \/ LookupSeed
    \/ PlanQueries
    \/ SearchQuery(SearchOutcomes)
    \/ SelectFinal
    \/ Fallback(TopOutcomes)
    \/ Reply
    \/ RememberRun
    \/ ProcessRestart

SpecIdem == Init /\ [][NextIdem]_vars

(***************************************************************************)
(* is_nsfw_content on its own: an item with any rating, genre list and      *)
(* title, null ones included, is classified once.                           *)
(***************************************************************************)
ProbeRatings == { None, Some(""), Some("PG"), Some("Rx"), Some("R+") }
ProbeGenres ==
    { None, Some(<<>>), Some(<<"Action">>), Some(<<"Ecchi">>),
      Some(<<"Action", "Ecchi">>) }
ProbeTitles == { None, Some("Saga"), Some("Adult Saga") }
Probes ==
    { Item(9, title, Some(70), genres, <<>>, rating) :
        title \in ProbeTitles, genres \in ProbeGenres, rating \in ProbeRatings }

InitNsfw ==
    /\ anime_cache = <<>>
    /\ hash_order \in Orders
    /\ pc = "idle"
    /\ user_anime_list = <<>>
    /\ max_recommendations = 0
    /\ seed_idx = 1
    /\ user_anime_data = <<>>
    /\ user_profile = EmptyProfile
    /\ search_queries = <<>>
    /\ search_log = <<>>
    /\ lookup_log = <<>>
    /\ all_candidates = <<>>
    /\ seen_anime_ids = {}
    /\ search_errors = {}
    /\ raised = FALSE
    /\ result = <<>>
    /\ fallback_anime = <<>>
    /\ recommendations_list = <<>>
    /\ response = NoResponse
    /\ saved = NoRun
    /\ probe \in { Some(item) : item \in Probes }
    /\ verdict = "unset"
    /\ InitClient
    /\ InitApi
    /\ InitDb
    /\ InitFunc

Classify ==
    /\ UNCHANGED <<clientVars, apiVars, funcVars, dbVars>>
    /\ probe # None
    /\ verdict = "unset"
    /\ verdict' = IF is_nsfw_content(Val(probe)) THEN "unsafe" ELSE "safe"
    /\ UNCHANGED <<anime_cache, hash_order, pc, user_anime_list,
                   max_recommendations, seed_idx, user_anime_data, user_profile,
                   search_queries, search_log, lookup_log, all_candidates,
                   seen_anime_ids, search_errors, raised, result, fallback_anime,
                   recommendations_list, response, saved, probe>>

NextNsfw == Classify

SpecNsfw == InitNsfw /\ [][NextNsfw]_vars


(***************************************************************************)
(* The catalog clients called by one thread, and by two request threads of  *)
(* a server that handles requests concurrently.                              *)
(***************************************************************************)
NextClient ==
    \/ SimpleCall(OneThread)
    \/ SessionCall(OneThread)
    \/ Sleep(OneThread)
    \/ Send(OneThread)
    \/ SimpleReceive(OneThread, Transports)
    \/ SessionReceive(OneThread, SessionTransports)
    \/ Tick

SpecClient == Init /\ [][NextClient]_vars

NextThreads ==
    \/ SimpleCall(TwoThreads)
    \/ SessionCall(TwoThreads)
    \/ Sleep(TwoThreads)
    \/ Send(TwoThreads)
    \/ SimpleReceive(TwoThreads, Transports)
    \/ SessionReceive(TwoThreads, SessionTransports)
    \/ Tick

SpecThreads == Init /\ [][NextThreads]_vars

(***************************************************************************)
(* AnimeRecommendationAPI serving posted bodies.                             *)
(***************************************************************************)
NextApi == ApiRecommendations(ApiBodies, EngineOutcomes)

SpecApi == Init /\ [][NextApi]_vars

\* calculate_similarity_score called on its own.
InitSim ==
    /\ InitIdle
    /\ sim_call \in { Some(call) : call \in SimCalls }
    /\ sim_score = NoSimScore
    /\ div_call = NoDivCall
    /\ div_result = NoDivResult
    /\ syn_call = NoSynCall
    /\ syn_result = NoSynResult

NextSim == SimilarityCall

SpecSim == InitSim /\ [][NextSim]_vars

\* ensure_diversity called on its own.
InitDiv ==
    /\ InitIdle
    /\ sim_call = NoSimCall
    /\ sim_score = NoSimScore
    /\ div_call \in { Some(call) : call \in DivCalls }
    /\ div_result = NoDivResult
    /\ syn_call = NoSynCall
    /\ syn_result = NoSynResult

NextDiv == DiversityCall

SpecDiv == InitDiv /\ [][NextDiv]_vars

\* The synopsis formatting on its own.
InitSynopsis ==
    /\ InitIdle
    /\ sim_call = NoSimCall
    /\ sim_score = NoSimScore
    /\ div_call = NoDivCall
    /\ div_result = NoDivResult
    /\ syn_call \in { Some(call) : call \in SynCalls }
    /\ syn_result = NoSynResult

NextSynopsis == FormatSynopsis

SpecSynopsis == InitSynopsis /\ [][NextSynopsis]_vars

\* The engine of src/services on its own.
NextDb ==
    \/ InitializeDatabase
    \/ FindInputAnime
    \/ GetRecommendations

SpecDb == Init /\ [][NextDb]_vars

(***************************************************************************)
(* Properties.                                                              *)
(***************************************************************************)
Ids(items) == { items[i].mal_id : i \in 1..Len(items) }
Distinct(ids) == \A i, j \in 1..Len(ids) : i # j => ids[i] # ids[j]

\* Query k of this call was answered, and the answer listed id.
Returned(k, id) ==
    search_log[k][2].ok /\ id \in ToSet(search_log[k][2].data)
\* Ids the searches of this call were answered with.
ReturnedIds == { id \in CatalogIds : \E k \in 1..Len(search_log) : Returned(k, id) }
\* The text of the earliest query, in query order, that returned id.
EarliestQuery(id) ==
    search_log[CHOOSE k \in 1..Len(search_log) :
                   Returned(k, id) /\ \A j \in 1..(k - 1) : ~Returned(j, id)][1]

\* C1: no id of the seed list is in the list get_recommendations returns, nor
\* in the fallback list the /api/recommendations endpoint builds.
NoSeedInOutput ==
    /\ Ids(result) \cap ToSet(user_anime_list) = {}
    /\ Ids(recommendations_list) \cap ToSet(user_anime_list) = {}

\* C1 witness: a search answered with a seed id, and recommendations returned.
SeedOfferedAndDropped ==
    /\ pc = "respond"
    /\ result # <<>>
    /\ ReturnedIds \cap ToSet(user_anime_list) # {}

\* C2: every returned item's similarity_score lies in [0, 1] (0..1000
\* thousandths).
ScoreInUnitInterval ==
    \A i \in 1..Len(result) :
        0 <= result[i].similarity_score /\ result[i].similarity_score <= 1000

\* C3: no item of any output (engine result, fallback list, search listing,
\* trending listing) is one for which is_nsfw_content answers true.
NoUnsafeOutput ==
    \A id \in Ids(result) \cup Ids(recommendations_list) \cup Ids(response.items) :
        ~is_nsfw_content(Catalog[id])

\* C3 witness: a search answered with an item is_nsfw_content rejects, and
\* recommendations returned.
UnsafeOfferedAndDropped ==
    /\ pc = "respond"
    /\ result # <<>>
    /\ \E id \in ReturnedIds : is_nsfw_content(Catalog[id])

\* C4: is_nsfw_content answers unsafe whenever the rating check, the genre
\* check or the title check matches, whatever the other two fields hold.
AnyCheckMarksUnsafe ==
    verdict # "unset" =>
        ((RatingMatches(Val(probe)) \/ GenreMatches(Val(probe))
             \/ TitleMatches(Val(probe)))
            => verdict = "unsafe")

\* C5: an id returned by several queries is once in the pool and once in the
\* returned list, and its provenance is the earliest query that returned it.
FirstSeenKept ==
    (pc = "respond" /\ ~raised) =>
        /\ Distinct([i \in 1..Len(all_candidates) |-> all_candidates[i].anime.mal_id])
        /\ Distinct([i \in 1..Len(result) |-> result[i].mal_id])
        /\ \A i \in 1..Len(all_candidates) :
              all_candidates[i].search_query
                  = EarliestQuery(all_candidates[i].anime.mal_id)
        /\ \A i \in 1..Len(result) :
              result[i].found_via = EarliestQuery(result[i].mal_id)

\* Ids that qualify among those the searches returned: not a seed, rated,
\* not rejected by is_nsfw_content.
QualifyingIds ==
    { id \in ReturnedIds :
        /\ id \notin ToSet(user_anime_list)
        /\ Catalog[id].score # None
        /\ Val(Catalog[id].score) > 0
        /\ ~is_nsfw_content(Catalog[id]) }

RunsAgree ==
    ( /\ pc = "respond"
      /\ saved # NoRun
      /\ saved.seeds = user_anime_list
      /\ saved.max = max_recommendations
      /\ saved.lookups = Resolutions(lookup_log)
      /\ saved.searches = search_log )
    => (saved.raised = raised /\ saved.result = result)

\* The seed loop is over and no seed resolved.
NoSeedResolved ==
    /\ user_anime_list # <<>>
    /\ seed_idx > Len(user_anime_list)
    /\ user_anime_data = <<>>

\* C8: when no seed resolves, get_recommendations does not raise, the profile
\* is the default one (average 7.0, no genres, no studios), no division by
\* zero happens, and the endpoint answers with the returned list or the
\* fallback list.
UnresolvedSeedsTolerated ==
    [][ NoSeedResolved =>
          /\ ~raised'
          /\ "ZeroDivisionError" \notin search_errors'
          /\ pc' \in {"search", "respond", "reply"} =>
                user_profile' = [genres |-> <<>>, studios |-> <<>>,
                                 avg_score |-> <<70, 1>>]
          /\ pc' = "done" =>
                /\ response'.status = "success"
                /\ response'.items = AnswerList ]_vars

\* C8 witness: no seed resolved and recommendations were returned.
UnresolvedSeedsServed ==
    /\ pc = "respond"
    /\ NoSeedResolved
    /\ result # <<>>

QueryFailed(k) == ~search_log[k][2].ok

\* C9: when a planned query fails, it contributes nothing, every planned query
\* is still executed in order, the returned items come from the queries that
\* were answered, and the response status is "success".
FailedQueryTolerated ==
    [][ ((\E k \in 1..Len(search_log) : QueryFailed(k)) /\ pc' = "done") =>
          /\ Len(search_log) = Len(search_queries)
          /\ \A k \in 1..Len(search_log) : search_log[k][1] = search_queries[k]
          /\ \A k \in 1..Len(search_log), i \in 1..Len(all_candidates) :
                QueryFailed(k) =>
                    all_candidates[i].search_query # search_log[k][1]
          /\ \A i \in 1..Len(result) :
                \E k \in 1..Len(search_log) :
                    ~QueryFailed(k) /\ result[i].found_via = search_log[k][1]
          /\ response'.status = "success"
          /\ response'.items = AnswerList ]_vars

\* C9 witness: one query failed, a later one was answered, and recommendations
\* were returned.
FailedQueryThenResults ==
    /\ pc = "respond"
    /\ result # <<>>
    /\ \E k, n \in 1..Len(search_log) :
          k < n /\ QueryFailed(k) /\ ~QueryFailed(n)

\* C10: with at least max_recommendations candidates gathered, exactly
\* max_recommendations items are returned.
ExactlyMaxWhenEnough ==
    (pc = "respond" /\ ~raised /\ Len(all_candidates) >= max_recommendations)
        => Len(result) = max_recommendations

\* The primary genre of a catalog item under the profile of this call: its first
\* genre that is a key of the profile, else its first genre.
PrimaryOf(id) ==
    LET genres == Val(Catalog[id].genres)
        hits == { i \in 1..Len(genres) : genres[i] \in Keys(user_profile.genres) }
    IN  IF hits # {}
        THEN genres[CHOOSE i \in hits : \A j \in hits : i <= j]
        ELSE IF genres # <<>> THEN genres[1] ELSE ""

\* C11: in the list get_recommendations returns, at most 3 items share a
\* primary genre, and the primary genre an item reports is its first genre
\* that occurs in the profile, else its first genre.
GenreCapKept ==
    pc = "respond" =>
        /\ \A i \in 1..Len(result) :
              result[i].primary_genre = Some(PrimaryOf(result[i].mal_id))
        /\ \A i \in 1..Len(result) :
              Cardinality({ j \in 1..Len(result) :
                              PrimaryOf(result[j].mal_id)
                                  = PrimaryOf(result[i].mal_id) }) <= 3

\* C11 witness: three returned items share a primary genre, and a further
\* candidate of that primary genre was gathered and left out.
GenreCapReached ==
    /\ pc = "respond"
    /\ \E i \in 1..Len(result) :
          /\ Cardinality({ j \in 1..Len(result) :
                             PrimaryOf(result[j].mal_id)
                                 = PrimaryOf(result[i].mal_id) }) = 3
          /\ \E k \in 1..Len(all_candidates) :
                /\ PrimaryOf(all_candidates[k].anime.mal_id)
                       = PrimaryOf(result[i].mal_id)
                /\ all_candidates[k].anime.mal_id \notin Ids(result)
                /\ Len(result) < max_recommendations

\* Times at which the requests of a service went out, in order.
RECURSIVE SentTimes(_, _)
SentTimes(log, service) ==
    IF log = <<>> THEN <<>>
    ELSE IF Head(log)[1] = service
         THEN <<Head(log)[2]>> \o SentTimes(Tail(log), service)
         ELSE SentTimes(Tail(log), service)

\* Any two consecutive outbound requests of service are at least delay apart.
Spaced(service, delay) ==
    LET times == SentTimes(sent, service)
    IN  \A i \in 1..(Len(times) - 1) : times[i + 1] - times[i] >= delay

\* C12: with one caller, any two consecutive outbound requests of
\* SimpleMALService are issued at least request_delay apart, also after a
\* request that got a non-2xx answer, a network error or a timeout.
RequestsSpaced == Spaced("SimpleMALService", request_delay)

SuccessfulFetchesCached ==
    [][ /\ \A id \in DOMAIN anime_cache :
              id \in DOMAIN anime_cache' /\ anime_cache'[id] = anime_cache[id]
        /\ Len(lookup_log') = Len(lookup_log) + 1 =>
              LET id == lookup_log'[Len(lookup_log')][1]
                  how == lookup_log'[Len(lookup_log')][2]
              IN  /\ id \in DOMAIN anime_cache =>
                        /\ how = "hit"
                        /\ ~raised' =>
                              user_anime_data'[Len(user_anime_data')]
                                  = anime_cache[id]
                  /\ id \notin DOMAIN anime_cache => how \in {"ok", "fail"}
                  /\ how = "ok" =>
                        /\ id \in DOMAIN anime_cache'
                        /\ anime_cache'[id] = Catalog[id]
                  /\ how = "fail" => id \notin DOMAIN anime_cache' ]_vars

\* C14 witness: within one request an id was fetched and then looked up again
\* and answered from the cache, while another id is cached from an earlier
\* request.
RetriedThenCached ==
    /\ Len(lookup_log) = 2
    /\ lookup_log[1][1] = lookup_log[2][1]
    /\ lookup_log[1][2] = "ok"
    /\ lookup_log[2][2] = "hit"
    /\ \E other \in DOMAIN anime_cache : other # lookup_log[1][1]

\* C15: get_recommendations never raises, and no exception abandons a query:
\* a resolved seed or a candidate whose rating or genre list is null is handled
\* as one with rating 0 or with no genres.
MissingFieldsDefaulted ==
    /\ ~raised
    /\ search_errors = {}

\* C16: a candidate enters the pool, and the returned list, only if its
\* relevance score meets the minimum of its class, and the minimum for a
\* candidate without genre overlap is higher than for one with overlap.  Hence
\* a candidate without genre overlap whose score is the least the scorer gives
\* any rated candidate (0.05, which every score meets) is below its minimum:
\* it is neither in the pool nor in the returned list.
ThresholdKept ==
    pc = "respond" =>
        /\ \A i \in 1..Len(all_candidates) :
              genre_overlap(all_candidates[i].anime, user_profile) = {} =>
                  all_candidates[i].relevance_score > 50 * Den(user_profile)
        /\ \A i \in 1..Len(result) :
              genre_overlap(Catalog[result[i].mal_id], user_profile) = {} =>
                  result[i].similarity_score > 50

\* The body's anime_titles is not a list, is empty or has more than 10 entries.
TitlesMalformed(body) ==
    \/ body.anime_titles.type # "list"
    \/ body.anime_titles.items = <<>>
    \/ Len(body.anime_titles.items) > 10
\* The body's max_recommendations is a number below 1 or above 50.
MaxOutOfRange(body) ==
    \/ /\ body.max_recommendations.type \in {"int", "float"}
       /\ (body.max_recommendations.num < 10 \/ body.max_recommendations.num > 500)
    \/ body.max_recommendations.type = "inf"

\* C17: a body whose anime_titles is not a list, is empty or has more than 10
\* entries, or whose max_recommendations is below 1 or above 50, is answered
\* with 400 without a call of the engine; the max_recommendations the engine
\* is called with is an integer in 1..50.
MalformedBodyRejected ==
    api_response # NoApiResponse =>
        /\ (TitlesMalformed(api_request) \/ MaxOutOfRange(api_request)) =>
              (api_response.code = 400 /\ ~api_response.engine_called)
        /\ api_response.engine_called =>
              api_response.max_recommendations \in 1..50

\* The engine is running a computation.
EngineInvoked == pc # "idle" /\ pc # "done"

\* C18: the endpoint of api/index.py rejects a non-list or empty
\* user_anime_list and a max_recommendations below 1 before the engine is
\* invoked: whenever the engine runs, its seed list is not empty and its
\* max_recommendations is at least 1.
EngineInputsValid ==
    EngineInvoked => (Len(user_anime_list) >= 1 /\ max_recommendations >= 1)

\* C19: with two request threads over one shared catalog service, no two
\* outbound catalog requests are issued less than the configured delay apart,
\* for the client of api/index.py and for the client of services.mal_service.
SerializedRequests ==
    /\ Spaced("SimpleMALService", request_delay)
    /\ Spaced("MALService", rate_limit_delay)

\* The cache holds items of the running computation only.
CacheScoped ==
    DOMAIN anime_cache \subseteq { user_anime_list[i] : i \in 1..Len(user_anime_list) }

\* A bound an eviction policy would keep: fewer items than clients can name.
CacheBound == Cardinality(SeedIds) - 1

\* C20: the item cache is scoped to one recommendation computation or bounded:
\* over any sequence of requests it holds items of the running computation
\* only, or no more than a fixed number of items.
CacheScopedOrBounded ==
    CacheScoped \/ Cardinality(DOMAIN anime_cache) <= CacheBound

\* The studios that at least two of the resolved seeds come from.
SharedStudios ==
    { S \in UNION { ToSet(user_anime_data[i].studios) : i \in 1..Len(user_anime_data) } :
        Cardinality({ i \in 1..Len(user_anime_data) :
                        S \in ToSet(user_anime_data[i].studios) }) >= 2 }

\* C21: when the computation has ended, a studio S shared by two resolved
\* seeds is among the preferred studios of the profile, and a search query
\* scoped to S was issued.
SharedStudioSearched ==
    (pc = "respond" /\ Len(user_anime_data) = Len(user_anime_list)) =>
        \A S \in SharedStudios :
            /\ S \in ToSet(preferred_studios(user_profile))
            /\ \E k \in 1..Len(search_log) : search_log[k][1] = <<S, "anime">>

\* The kind of a query by its words: 3 a score-tier query, 2 a studio query,
\* 1 a genre query.
QueryRank(q) ==
    IF q = <<"highly", "rated", "anime">> \/ q = <<"popular", "anime">> THEN 3
    ELSE IF Len(q) = 2 /\ q[2] = "anime" THEN 2
    ELSE 1

\* C22: in one call the searches run in the order genre queries, studio
\* query, score-tier query; exactly one score-tier query is issued and it is
\* the last; between 1 and 4 searches are made, after at most one lookup per
\* seed.
QueriesOrderedAndCapped ==
    pc = "respond" =>
        /\ \A i \in 1..(Len(search_log) - 1) :
              QueryRank(search_log[i][1]) <= QueryRank(search_log[i + 1][1])
        /\ Cardinality({ i \in 1..Len(search_log) :
                            QueryRank(search_log[i][1]) = 3 }) = 1
        /\ Len(search_log) >= 1
        /\ QueryRank(search_log[Len(search_log)][1]) = 3
        /\ Len(search_log) <= 4
        /\ Len(lookup_log) <= Len(user_anime_list)

\* The genre names of the resolved seeds in the order of the scan, one entry
\* per occurrence.
RECURSIVE GenresScanned(_)
GenresScanned(data) ==
    IF data = <<>> THEN <<>>
    ELSE Val(Head(data).genres) \o GenresScanned(Tail(data))

Occurrences(g) ==
    Cardinality({ i \in 1..Len(GenresScanned(user_anime_data)) :
                    GenresScanned(user_anime_data)[i] = g })
FirstSeen(g) ==
    CHOOSE i \in 1..Len(GenresScanned(user_anime_data)) :
        /\ GenresScanned(user_anime_data)[i] = g
        /\ \A k \in 1..(i - 1) : GenresScanned(user_anime_data)[k] # g

\* C23: once the queries are planned, top_genres lists every genre of the
\* resolved seeds once with its number of occurrences, in descending order of
\* that number, genres with equal numbers in the order they were first seen;
\* the first query is the primary genre query of the first genre.
TopGenresOrdered ==
    pc = "search" =>
        LET top == top_genres(user_profile)
        IN  /\ { top[i][1] : i \in 1..Len(top) }
                  = ToSet(GenresScanned(user_anime_data))
            /\ \A i \in 1..Len(top) : top[i][2] = Occurrences(top[i][1])
            /\ \A i \in 1..(Len(top) - 1) :
                  \/ top[i][2] > top[i + 1][2]
                  \/ /\ top[i][2] = top[i + 1][2]
                     /\ FirstSeen(top[i][1]) < FirstSeen(top[i + 1][1])
            /\ top # <<>> => search_queries[1] = <<"best", top[1][1], "anime">>

\* C23 witness: two genres occur equally often, and the primary genre query
\* names the one seen first.
TiedGenresPlanned ==
    /\ pc = "search"
    /\ Len(top_genres(user_profile)) = 2
    /\ top_genres(user_profile)[1][2] = top_genres(user_profile)[2][2]
    /\ search_queries[1] = <<"best", GenresScanned(user_anime_data)[1], "anime">>

\* The weights of the genres the candidate of sim_call shares with the profile.
SharedWeight ==
    LET call == Val(sim_call)
    IN  Frac(SumValues(SelectSeq(call.user_genres,
                 LAMBDA e : e[1] \in ToSet(Val(call.anime.genres)))),
             Max(SumValues(call.user_genres), 1))

\* C24: the multi-genre bonus is that of the highest tier that applies: the
\* genre contribution of a candidate is 0.6 times the lesser of 1.0 and the
\* shared weight plus 0.5 for an overlap of 3 or more, plus 0.3 for an overlap
\* of exactly 2, plus nothing for a smaller overlap.
HighestBonusTierApplied ==
    (sim_score # NoSimScore /\ ~Val(sim_score).raised) =>
        LET overlap == genre_overlap_count(Val(sim_call).anime,
                                           Val(sim_call).user_genres)
            bonus == IF overlap >= 3 THEN <<5, 10>>
                     ELSE IF overlap = 2 THEN <<3, 10>>
                     ELSE <<0, 1>>
        IN  Val(sim_score).genre
              = FMul(FMin(FAdd(SharedWeight, bonus), <<1, 1>>), <<6, 10>>)

\* C25: each of the five additions to the score keeps to its weight: genre at
\* most 0.6, rating at most 0.15, popularity at most 0.15, studio at most
\* 0.10, quality and diversity bonus at most 0.05; the value returned lies in
\* [0, 1].
SubScoresClamped ==
    sim_score # NoSimScore =>
        /\ FLeq(Val(sim_score).genre, <<60, 100>>)
        /\ FLeq(Val(sim_score).rating, <<15, 100>>)
        /\ FLeq(Val(sim_score).popularity, <<15, 100>>)
        /\ FLeq(Val(sim_score).studio, <<10, 100>>)
        /\ FLeq(Val(sim_score).bonus, <<5, 100>>)
        /\ FLeq(<<0, 1>>, Val(sim_score).returned)
        /\ FLeq(Val(sim_score).returned, <<1, 1>>)

\* Position of an item in the input of ensure_diversity (items are distinct).
DivPos(x) ==
    CHOOSE i \in 1..Len(Val(div_call).recommendations) :
        Val(div_call).recommendations[i] = x

\* x has a genre or a studio that none of the items of taken has.
AddsDiversity(x, taken) ==
    \/ ToSet(x.genres) \ UNION { ToSet(t.genres) : t \in taken } # {}
    \/ ToSet(x.studios) \ UNION { ToSet(t.studios) : t \in taken } # {}

\* The first k items of the output are what the diversity pass admits, the
\* rest are the first items of the input that it did not admit.
DiversityThenFill(input, output, maxrec, k) ==
    LET admitted == { output[i] : i \in 1..k }
        Before(x) == { t \in admitted : DivPos(t) < DivPos(x) }
        passed == IF k < maxrec THEN ToSet(input)
                  ELSE IF k = 0 THEN {}
                  ELSE { x \in ToSet(input) : DivPos(x) < DivPos(output[k]) }
        rest == SelectSeq(input, LAMBDA x : x \notin admitted)
    IN  /\ \A i \in 1..(k - 1) : DivPos(output[i]) < DivPos(output[i + 1])
        /\ \A i \in 1..k :
              \/ Cardinality(Before(output[i])) < maxrec \div 2
              \/ AddsDiversity(output[i], Before(output[i]))
        /\ \A x \in passed \ admitted :
              /\ Cardinality(Before(x)) >= maxrec \div 2
              /\ ~AddsDiversity(x, Before(x))
        /\ \A i \in (k + 1)..maxrec : output[i] = rest[i - k]

Discovered(id) ==
    CHOOSE i \in 1..Len(all_candidates) : all_candidates[i].anime.mal_id = id

\* C27: the returned list is ranked by the score it reports: similarity_score
\* does not increase along the list, and items with equal similarity_score are
\* in the order in which they were discovered.
RankedByReportedScore ==
    pc = "respond" =>
        \A i \in 1..(Len(result) - 1) :
            \/ result[i].similarity_score > result[i + 1].similarity_score
            \/ /\ result[i].similarity_score = result[i + 1].similarity_score
               /\ Discovered(result[i].mal_id) < Discovered(result[i + 1].mal_id)

\* C28: the synopsis of an output item is the catalog synopsis when that has
\* at most 200 characters, and its first 200 characters followed by an
\* ellipsis when it is longer; a null synopsis counts as the empty one.
SynopsisTruncatedOnlyWhenLong ==
    syn_result # NoSynResult =>
        LET catalog == IF Val(syn_call).synopsis = None THEN <<>>
                       ELSE Val(Val(syn_call).synopsis)
        IN  Val(syn_result) =
              IF Len(catalog) <= 200 THEN catalog
              ELSE SubSeq(catalog, 1, 200) \o <<"...">>

\* list holds no two entries with the same mal_id
UniqueMalIds(list) ==
    \A i, j \in 1..Len(list) : i # j => list[i].mal_id # list[j].mal_id

\* C29: after any sequence of initialize_database, _find_input_anime and
\* get_recommendations calls, anime_database holds at most one entry per
\* mal_id and a returned recommendation list holds no mal_id twice.
OneEntryPerMalId ==
    /\ UniqueMalIds(anime_database)
    /\ last_recommendations # NoRecommendations
          => UniqueMalIds(Val(last_recommendations))

\* C30: every response of /api/recommendations, /api/search and
\* /api/trending is a JSON object with a status field, with the payload on
\* success and a message on error, whatever the request parameters.
WellFormedEnvelope ==
    response.kind \in {"recommendations", "search", "trending"} =>
        /\ response.status \in {"success", "error"}
        /\ response.status = "error" => response.message
        /\ response.status = "success" => response.code = 200

====
